---- MODULE Spec2Model ----
(***************************************************************************)
(* Model of the rule engine of network_generators: RuleEngine,             *)
(* RuleEngineSession (services/rules.py) and the DataProcessor pipeline    *)
(* that drives a session (generators/data.py).                             *)
(*                                                                         *)
(* Python objects that are shared by reference (the device dicts) live in  *)
(* `heap`; a DeviceRecord holds the key of its device, not a copy of it.   *)
(* Every handler is modelled step by step: one action for its entry, one   *)
(* per loop iteration, one for its exit; `pc` is the position of the       *)
(* single thread of control.                                               *)
(***************************************************************************)
EXTENDS Integers, Sequences, FiniteSets, TLC

\* ------------------------------------------------------------------ bounds
MaxRules == 3
MaxCalls == 3
MaxFleetOverride == 1
MaxFiles == 2
MaxRegister == 1
MaxArgs == 3

\* ------------------------------------------------------------ Python values
None == "None"

\* A user-supplied rule is modelled by what it does with its context.
\*   "report": calls context.report_issue once
\*   "mutate": writes the device's domain field from context.site
DeviceRuleKinds == {"report", "mutate"}
\*   "freport": calls context.report_issue once
\*   "observe": reads every record's device map (and reports nothing)
FleetRuleKinds == {"freport", "observe"}
\* an entry of a rules sequence that is not callable
NotCallable == "not-callable"

SeqsUpTo(S, n) == UNION {[1..m -> S] : m \in 0..n}

\* an optional argument or attribute: None, or a sequence of entries
Nothing == [given |-> FALSE, items |-> <<>>]
Some(items) == [given |-> TRUE, items |-> items]

\* ------------------------------------------------------ rule validation
DEFAULT_RULES_MODULE == "network_generators.rules"

\* callable(candidate)
Callable(candidate) == candidate # NotCallable

\* how a call ends: with a value, or with an exception
Returned(value) == [raised |-> FALSE, value |-> value, error |-> None, message |-> ""]
Raised(error, message) ==
  [raised |-> TRUE, value |-> <<>>, error |-> error, message |-> message]

_ensure_rule(candidate) ==
  IF ~Callable(candidate)
  THEN Raised("TypeError", "Rule '" \o candidate \o "' is not callable")
  ELSE Returned(<<candidate>>)

\* variant: the callable check is left out
_ensure_fleet_rule_unchecked(candidate) == Returned(<<candidate>>)

_ensure_fleet_rule(candidate) ==
  IF ~Callable(candidate)
  THEN Raised("TypeError", "Fleet rule '" \o candidate \o "' is not callable")
  ELSE Returned(<<candidate>>)

RECURSIVE _validate_rules_reversed(_)
\* variant: the validated items are collected in reverse
_validate_rules_reversed(candidate) ==
  IF candidate = <<>> THEN Returned(<<>>)
  ELSE LET first == _ensure_rule(Head(candidate))
       IN IF first.raised THEN first
          ELSE LET others == _validate_rules_reversed(Tail(candidate))
               IN IF others.raised THEN others
                  ELSE Returned(others.value \o first.value)

RECURSIVE _validate_rules(_)
\* tuple(_ensure_rule(item) for item in candidate): the items in their order,
\* or the exception of the first item that is not callable
_validate_rules(candidate) ==
  IF candidate = <<>> THEN Returned(<<>>)
  ELSE LET first == _ensure_rule(Head(candidate))
       IN IF first.raised THEN first
          ELSE LET others == _validate_rules(Tail(candidate))
               IN IF others.raised THEN others
                  ELSE Returned(first.value \o others.value)

RECURSIVE _validate_fleet_rules(_)
_validate_fleet_rules(candidate) ==
  IF candidate = <<>> THEN Returned(<<>>)
  ELSE LET first == _ensure_fleet_rule(Head(candidate))
       IN IF first.raised THEN first
          ELSE LET others == _validate_fleet_rules(Tail(candidate))
               IN IF others.raised THEN others
                  ELSE Returned(first.value \o others.value)

\* ------------------------------------------------------------ rule-sources
\* What importing a rule-source gives. import_result is "ok", "absent" (the
\* named module does not exist), "nested-missing" (the module exists and one of
\* its own imports does not) or "error" (anything else raised while loading).
\* A collection attribute is Nothing when getattr(module, name, None) is None;
\* a factory attribute is Nothing when the module has no callable of that name,
\* and otherwise holds what calling it returns. members is module.__dict__ in
\* definition order.
NoModule(import_result) ==
  [import_result |-> import_result,
   DATA_RULES |-> Nothing, RULES |-> Nothing,
   get_rules |-> Nothing, rules |-> Nothing,
   FLEET_RULES |-> Nothing,
   get_fleet_rules |-> Nothing, fleet_rules |-> Nothing,
   members |-> <<>>]

Member(value, network_rule, network_fleet_rule) ==
  [value |-> value, network_rule |-> network_rule,
   network_fleet_rule |-> network_fleet_rule]

ModuleNames ==
  {"missing_rules", "broken_rules", "partial_rules", "listed_rules", "custom_rules",
   "invalid_rules"}

ModuleTable(module_name) ==
  CASE module_name = "missing_rules" -> NoModule("absent")
    [] module_name = "broken_rules" -> NoModule("error")
    [] module_name = "partial_rules" -> NoModule("nested-missing")
    [] module_name = "listed_rules" ->
         [NoModule("ok") EXCEPT !.DATA_RULES = Some(<<"mutate", "report">>),
                                !.FLEET_RULES = Some(<<"observe">>),
                                !.members = <<Member("mutate", TRUE, FALSE),
                                              Member("report", TRUE, FALSE),
                                              Member("observe", FALSE, TRUE)>>]
    [] module_name = "custom_rules" ->
         [NoModule("ok") EXCEPT !.members = <<Member("report", TRUE, FALSE),
                                              Member("freport", FALSE, TRUE),
                                              Member("mutate", TRUE, FALSE)>>]
    [] module_name = "invalid_rules" ->
         [NoModule("ok") EXCEPT !.DATA_RULES = Some(<<"mutate", NotCallable>>)]
    \* network_generators/rules/__init__.py: the built-in rules, registered in
    \* DATA_RULES and FLEET_RULES and decorated as well
    [] module_name = DEFAULT_RULES_MODULE ->
         [NoModule("ok") EXCEPT
            !.DATA_RULES = Some(<<"assign_site_domains", "suppress_matches_for_wgw01">>),
            !.FLEET_RULES = Some(<<"ensure_unique_ipv4_allocations">>),
            !.members = <<Member("register", FALSE, FALSE),
                          Member("register_fleet", FALSE, FALSE),
                          Member("assign_site_domains", TRUE, FALSE),
                          Member("suppress_matches_for_wgw01", TRUE, FALSE),
                          Member("ensure_unique_ipv4_allocations", FALSE, TRUE)>>]
    [] OTHER -> NoModule("absent")

Values(members) == [n \in DOMAIN members |-> members[n].value]
IsNetworkRule(member) == member.network_rule
IsNetworkFleetRule(member) == member.network_fleet_rule

\* variant: a collection or factory that yields nothing is passed over
_discover_device_rules_nonempty(module) ==
  IF module.DATA_RULES.items # <<>> THEN _validate_rules(module.DATA_RULES.items)
  ELSE IF module.RULES.items # <<>> THEN _validate_rules(module.RULES.items)
  ELSE IF module.get_rules.items # <<>> THEN _validate_rules(module.get_rules.items)
  ELSE IF module.rules.items # <<>> THEN _validate_rules(module.rules.items)
  ELSE _validate_rules(Values(SelectSeq(module.members, IsNetworkRule)))

_discover_device_rules(module) ==
  IF module.DATA_RULES.given THEN _validate_rules(module.DATA_RULES.items)
  ELSE IF module.RULES.given THEN _validate_rules(module.RULES.items)
  ELSE IF module.get_rules.given THEN _validate_rules(module.get_rules.items)
  ELSE IF module.rules.given THEN _validate_rules(module.rules.items)
  ELSE _validate_rules(Values(SelectSeq(module.members, IsNetworkRule)))

_discover_fleet_rules(module) ==
  IF module.FLEET_RULES.given THEN _validate_fleet_rules(module.FLEET_RULES.items)
  ELSE IF module.get_fleet_rules.given
  THEN _validate_fleet_rules(module.get_fleet_rules.items)
  ELSE IF module.fleet_rules.given
  THEN _validate_fleet_rules(module.fleet_rules.items)
  ELSE _validate_fleet_rules(Values(SelectSeq(module.members, IsNetworkFleetRule)))

\* what a constructor or loader yields: the two rule tuples, or an exception
Loaded(rules, fleet_rules) ==
  [raised |-> FALSE, error |-> None, message |-> "",
   rules |-> rules, fleet_rules |-> fleet_rules]
LoadFailed(error, message) ==
  [raised |-> TRUE, error |-> error, message |-> message,
   rules |-> <<>>, fleet_rules |-> <<>>]

\* variant: a rule-source that is not there is a failure like any other
_load_from_module_strict(module_name) ==
  LET module == ModuleTable(module_name)
  IN IF module.import_result # "ok"
     THEN LoadFailed("RuntimeError",
                     "Failed to import rules module '" \o module_name \o "'")
     ELSE LET device_rules == _discover_device_rules(module)
              fleet_rules == _discover_fleet_rules(module)
          IN IF device_rules.raised
             THEN LoadFailed(device_rules.error, device_rules.message)
             ELSE IF fleet_rules.raised
             THEN LoadFailed(fleet_rules.error, fleet_rules.message)
             ELSE Loaded(device_rules.value, fleet_rules.value)

\* RuleEngine._load_from_module
_load_from_module(module_name) ==
  LET module == ModuleTable(module_name)
  IN IF module.import_result \in {"absent", "nested-missing"}
     THEN Loaded(<<>>, <<>>)
     ELSE IF module.import_result # "ok"
     THEN LoadFailed("RuntimeError",
                     "Failed to import rules module '" \o module_name \o "'")
     ELSE LET device_rules == _discover_device_rules(module)
              fleet_rules == _discover_fleet_rules(module)
          IN IF device_rules.raised
             THEN LoadFailed(device_rules.error, device_rules.message)
             ELSE IF fleet_rules.raised
             THEN LoadFailed(fleet_rules.error, fleet_rules.message)
             ELSE Loaded(device_rules.value, fleet_rules.value)

\* variant: explicit rules without fleet_rules take the Fleet Rules of the
\* rule-source
RuleEngineInit_FallsBackToSource(module_name, rules, fleet_rules) ==
  LET loaded == _load_from_module(module_name)
  IN IF rules.given
     THEN LET device_rules == _validate_rules(rules.items)
              supplied == _validate_fleet_rules(fleet_rules.items)
          IN IF device_rules.raised
             THEN LoadFailed(device_rules.error, device_rules.message)
             ELSE IF supplied.raised
             THEN LoadFailed(supplied.error, supplied.message)
             ELSE IF fleet_rules.given \/ loaded.raised
             THEN Loaded(device_rules.value, supplied.value)
             ELSE Loaded(device_rules.value, loaded.fleet_rules)
     ELSE IF loaded.raised THEN loaded
          ELSE IF fleet_rules.given
          THEN LET supplied == _validate_fleet_rules(fleet_rules.items)
               IN IF supplied.raised
                  THEN LoadFailed(supplied.error, supplied.message)
                  ELSE Loaded(loaded.rules, supplied.value)
          ELSE loaded

\* RuleEngine.__init__(module_name=..., rules=..., fleet_rules=...)
RuleEngineInit(module_name, rules, fleet_rules) ==
  IF rules.given
  THEN LET device_rules == _validate_rules(rules.items)
           \* fleet_rules or (): None and the empty sequence both give ()
           supplied == _validate_fleet_rules(fleet_rules.items)
       IN IF device_rules.raised
          THEN LoadFailed(device_rules.error, device_rules.message)
          ELSE IF supplied.raised
          THEN LoadFailed(supplied.error, supplied.message)
          ELSE Loaded(device_rules.value, supplied.value)
  ELSE LET loaded == _load_from_module(module_name)
       IN IF loaded.raised THEN loaded
          ELSE IF fleet_rules.given
          THEN LET supplied == _validate_fleet_rules(fleet_rules.items)
               IN IF supplied.raised
                  THEN LoadFailed(supplied.error, supplied.message)
                  ELSE Loaded(loaded.rules, supplied.value)
          ELSE loaded

\* the constructor arguments the model draws from
RuleEntries == DeviceRuleKinds \cup {NotCallable}
FleetRuleEntries == FleetRuleKinds \cup {NotCallable}
Optional(S) == {Nothing} \cup {Some(items) : items \in S}

EngineArgs ==
  {[module_name |-> DEFAULT_RULES_MODULE, rules |-> Some(r), fleet_rules |-> f] :
     <<r, f>> \in {p \in SeqsUpTo(RuleEntries, MaxRules)
                           \X Optional(SeqsUpTo(FleetRuleEntries, MaxRules)) :
                     Len(p[1]) + Len(p[2].items) <= MaxRules}}
  \cup
  {[module_name |-> m, rules |-> Nothing, fleet_rules |-> f] :
     <<m, f>> \in ModuleNames \X Optional(SeqsUpTo(FleetRuleEntries, MaxFleetOverride))}

NoEngine == [constructed |-> FALSE, rules |-> <<>>, fleet_rules |-> <<>>,
             _loaded_from_module |-> FALSE]
NoError == [error |-> None, message |-> ""]
NoRun == [pc |-> "off", k |-> 0, w |-> 0]
NoCall == [fn |-> None, input |-> <<>>, done |-> FALSE, output |-> <<>>]
\* no second Session object
NoSession == [exists |-> FALSE, _rules |-> <<>>, _fleet_rules |-> <<>>,
              _issues |-> <<>>, _devices |-> <<>>]
NoRegistry == [DATA_RULES |-> <<>>, FLEET_RULES |-> <<>>]

\* --------------------------------------------------------- token resolution
\* A string is the sequence of its lexical atoms: the characters "<", ">", "|"
\* and " " stand for themselves, every other atom is a maximal run of other
\* characters. Text gives the string back as one value.
RECURSIVE Text(_)
Text(atoms) == IF atoms = <<>> THEN "" ELSE Head(atoms) \o Text(Tail(atoms))

\* str.__contains__ on one character
HasChar(text, c) == \E i \in 1..Len(text) : SubSeq(text, i, i) = c

\* repr() of one character of a str that is quoted with `quote`
ReprChar(c, quote) ==
  CASE c = "\\" -> "\\\\"
    [] c = quote -> "\\" \o c
    [] c = "\n" -> "\\n"
    [] c = "\t" -> "\\t"
    [] c = "\r" -> "\\r"
    [] OTHER -> c

RECURSIVE Escaped(_, _)
Escaped(text, quote) ==
  IF text = "" THEN ""
  ELSE ReprChar(SubSeq(text, 1, 1), quote) \o Escaped(SubSeq(text, 2, Len(text)), quote)

\* repr() of a str: in single quotes, unless it holds a single quote and no
\* double quote; backslashes, the quote and control characters are escaped
Repr(text) ==
  LET quote == IF HasChar(text, "'") /\ ~HasChar(text, "\"") THEN "\"" ELSE "'"
  IN quote \o Escaped(text, quote) \o quote

\* the runs that consist of [a-zA-Z0-9_] only, and str.lower of each
ResolverNames == {"ipam", "IPAM", "Ipam", "asset", "ASSET", "dns", "DNS", "nyc01", "sfo01"}
Lower(word) ==
  CASE word \in {"IPAM", "Ipam"} -> "ipam"
    [] word = "ASSET" -> "asset"
    [] word = "DNS" -> "dns"
    [] OTHER -> word

RECURSIVE LStrip(_)
LStrip(atoms) ==
  IF atoms # <<>> /\ Head(atoms) = " " THEN LStrip(Tail(atoms)) ELSE atoms

RECURSIVE RStrip(_)
RStrip(atoms) ==
  IF atoms # <<>> /\ atoms[Len(atoms)] = " "
  THEN RStrip(SubSeq(atoms, 1, Len(atoms) - 1)) ELSE atoms

\* str.strip
Strip(atoms) == RStrip(LStrip(atoms))

\* a pattern whose resolver group takes any run of characters
TOKEN_PATTERN_AnyName(atoms) ==
  LET n == Len(atoms)
      bare == n = 3
      piped == /\ n >= 4
               /\ atoms[3] = "|"
               /\ \A k \in 4..(n - 1) : atoms[k] # ">"
  IN IF /\ n >= 3
        /\ atoms[1] = "<"
        /\ atoms[n] = ">"
        /\ bare \/ piped
     THEN [matched |-> TRUE, resolver |-> atoms[2],
           args |-> IF bare THEN Nothing ELSE Some(SubSeq(atoms, 4, n - 1))]
     ELSE [matched |-> FALSE, resolver |-> "", args |-> Nothing]

\* TOKEN_PATTERN.match: ^<(?P<resolver>[a-zA-Z0-9_]+)(?:\|(?P<args>[^>]*))?>$
\* The args group is Nothing when the token has no "|" part.
TOKEN_PATTERN(atoms) ==
  LET n == Len(atoms)
      bare == n = 3
      piped == /\ n >= 4
               /\ atoms[3] = "|"
               /\ \A k \in 4..(n - 1) : atoms[k] # ">"
  IN IF /\ n >= 3
        /\ atoms[1] = "<"
        /\ atoms[n] = ">"
        /\ atoms[2] \in ResolverNames
        /\ bare \/ piped
     THEN [matched |-> TRUE, resolver |-> atoms[2],
           args |-> IF bare THEN Nothing ELSE Some(SubSeq(atoms, 4, n - 1))]
     ELSE [matched |-> FALSE, resolver |-> "", args |-> Nothing]

RECURSIVE Split(_, _)
\* str.split("|"): the pieces between the separators, empty pieces included;
\* piece is the text collected since the last separator
Split(atoms, piece) ==
  IF atoms = <<>> THEN <<piece>>
  ELSE IF Head(atoms) = "|" THEN <<piece>> \o Split(Tail(atoms), "")
  ELSE Split(Tail(atoms), piece \o Head(atoms))

\* an argument list that keeps the empty pieces
Arguments_KeepsEmpty(args) ==
  IF ~args.given \/ args.items = <<>> THEN <<>>
  ELSE Split(args.items, "")

\* [part for part in args.split("|") if part] if args else []
Arguments(args) ==
  IF ~args.given \/ args.items = <<>> THEN <<>>
  ELSE SelectSeq(Split(args.items, ""), LAMBDA part : part # "")

\* the IPAMSimulator and AssetInventory handed to the processor
IpamKeys ==
  {<<"nyc01", "wgw01.nyc01", "GigabitEthernet1/1">>,
   <<"nyc01", "wgw02.nyc01", "GigabitEthernet1/1">>,
   <<"sfo01", "wgw01.sfo01", "ge-0/0/0">>}
IpamAllocation(key) ==
  CASE key = <<"nyc01", "wgw01.nyc01", "GigabitEthernet1/1">> -> "10.2.0.1/24"
    [] key = <<"nyc01", "wgw02.nyc01", "GigabitEthernet1/1">> -> "10.2.0.2/24"
    [] key = <<"sfo01", "wgw01.sfo01", "ge-0/0/0">> -> "10.3.0.1/24"

AssetKeys ==
  {<<"nyc01", "wgw01.nyc01">>, <<"nyc01", "wgw02.nyc01">>, <<"sfo01", "wgw01.sfo01">>}
AssetRecord(key) ==
  CASE key = <<"nyc01", "wgw01.nyc01">> -> "FTX5678B01"
    [] key = <<"nyc01", "wgw02.nyc01">> -> "FTX5678B02"
    [] key = <<"sfo01", "wgw01.sfo01">> -> "FTX2468C01"

\* an override that takes an empty argument for a key
ArgOr_KeepsEmpty(arguments, index, fallback) ==
  IF Len(arguments) > index THEN arguments[index + 1] ELSE fallback

\* args[index] if len(args) > index and args[index] else fallback
ArgOr(arguments, index, fallback) ==
  IF Len(arguments) > index /\ arguments[index + 1] # ""
  THEN arguments[index + 1] ELSE fallback

SITE_ARG_INDEX == 0
HOSTNAME_ARG_INDEX == 1
INTERFACE_ARG_INDEX == 2

\* IPAMSimulator.lookup
IpamLookup(site, hostname, interface, arguments) ==
  LET site_key == ArgOr(arguments, SITE_ARG_INDEX, site)
      hostname_key == ArgOr(arguments, HOSTNAME_ARG_INDEX, hostname)
      interface_key == ArgOr(arguments, INTERFACE_ARG_INDEX, interface)
      key == <<site_key, hostname_key, interface_key>>
  IN IF key \in IpamKeys THEN Returned(<<IpamAllocation(key)>>)
     ELSE Raised("IPAMLookupError",
                 "No IPAM allocation for site=" \o Repr(site_key)
                   \o ", hostname=" \o Repr(hostname_key)
                   \o ", interface=" \o Repr(interface_key))

\* AssetInventory.lookup
AssetLookup(site, hostname, arguments) ==
  LET site_key == ArgOr(arguments, SITE_ARG_INDEX, site)
      hostname_key == ArgOr(arguments, HOSTNAME_ARG_INDEX, hostname)
      key == <<site_key, hostname_key>>
  IN IF key \in AssetKeys THEN Returned(<<AssetRecord(key)>>)
     ELSE Raised("AssetLookupError",
                 "No asset record for site=" \o Repr(site_key)
                   \o ", hostname=" \o Repr(hostname_key))

\* a message that leaves the candidate out
IPAM_INTERFACE_REQUIRED_MESSAGE_NoValue(candidate) ==
  "Resolver 'ipam' requires an interface context"

\* a message that leaves the resolver out
UNSUPPORTED_RESOLVER_MESSAGE_NoName(resolver, candidate) ==
  "Resolver is not supported in " \o Repr(candidate)

\* a message that passes the Lookup's error on without its context
IPAM_LOOKUP_FAILED_MESSAGE_NoContext(hostname, interface, error) == error

\* the message templates of generators/data.py; {candidate!r} is repr(candidate)
IPAM_INTERFACE_REQUIRED_MESSAGE(candidate) ==
  "Resolver 'ipam' requires an interface context (value " \o Repr(candidate) \o ")"
IPAM_LOOKUP_FAILED_MESSAGE(hostname, interface, error) ==
  hostname \o " " \o interface \o ": " \o error
ASSET_LOOKUP_FAILED_MESSAGE(hostname, error) == hostname \o ": " \o error
UNSUPPORTED_RESOLVER_MESSAGE(resolver, candidate) ==
  "Resolver '" \o resolver \o "' is not supported in " \o Repr(candidate)

\* one call of a Lookup, with the arguments it was given
LookupCall(service, site, hostname, interface, arguments) ==
  [service |-> service, site |-> site, hostname |-> hostname,
   interface |-> interface, arguments |-> arguments]

\* DataProcessor._resolve_token, together with the Lookup calls it made;
\* interface is None for the serial number
_resolve_token_calls(candidate, site, hostname, interface) ==
  LET match == TOKEN_PATTERN(Strip(candidate))
      resolver == Lower(match.resolver)
      arguments == Arguments(match.args)
  IN IF ~match.matched THEN [result |-> Returned(candidate), lookups |-> <<>>]
     ELSE IF resolver = "ipam"
     THEN IF interface = None
          THEN [result |-> Raised("ValueError",
                                  IPAM_INTERFACE_REQUIRED_MESSAGE(Text(candidate))),
                lookups |-> <<>>]
          ELSE LET found == IpamLookup(site, hostname, interface, arguments)
               IN [result |->
                     IF found.raised
                     THEN Raised("ValueError",
                                 IPAM_LOOKUP_FAILED_MESSAGE(hostname, interface,
                                                            found.message))
                     ELSE found,
                   lookups |->
                     <<LookupCall("ipam", site, hostname, interface, arguments)>>]
     ELSE IF resolver = "asset"
     THEN LET found == AssetLookup(site, hostname, arguments)
          IN [result |->
                IF found.raised
                THEN Raised("ValueError",
                            ASSET_LOOKUP_FAILED_MESSAGE(hostname, found.message))
                ELSE found,
              lookups |-> <<LookupCall("asset", site, hostname, None, arguments)>>]
     ELSE [result |-> Raised("ValueError",
                             UNSUPPORTED_RESOLVER_MESSAGE(resolver, Text(candidate))),
           lookups |-> <<>>]

\* DataProcessor._resolve_token: what it returns or raises
_resolve_token(candidate, site, hostname, interface) ==
  _resolve_token_calls(candidate, site, hostname, interface).result

\* ------------------------------------------------------------ device maps
DevIds == {"d1", "d2"}
SchemaRef == "../../data/schema.json"

\* the dict a client hands to apply; a missing key reads as None
InitialDevice(d) ==
  [hostname |-> IF d = "d1" THEN "wgw01.nyc01" ELSE None,
   domain |-> "example.com",
   interfaces |-> <<[name |-> "ge-0/0/0", ipv4 |-> <<"10.2.0.1/24">>]>>,
   serial_number |-> <<"FTX0000">>,
   schema |-> None]

SourcePathOf(d) == IF d = "d1" THEN "data/nyc01/wgw01.json" ELSE "data/sfo01/wgw02.json"

\* the (device, site, display_path) arguments a client passes to apply
ApplyArgs ==
  {[device |-> "d1", site |-> "nyc01", display_path |-> None],
   [device |-> "d2", site |-> "sfo01", display_path |-> "sfo01/wgw02.json"],
   [device |-> "d1", site |-> "sfo01", display_path |-> ""]}

VARIABLES
  args,          \* the arguments RuleEngine is constructed with
  engine,        \* the RuleEngine, once constructed
  error,         \* the exception that ended the construction, if any
  _rules,        \* RuleEngineSession._rules
  _fleet_rules,  \* RuleEngineSession._fleet_rules
  _issues,       \* RuleEngineSession._issues
  _devices,      \* RuleEngineSession._devices
  heap,          \* the device dicts, by identity
  pc,            \* "new" | "failed" | "engine" | "idle" | "apply" | "finalize"
  frame,         \* the locals of the handler that is running
  result,        \* how the last finalize ended
  fleetSeen,     \* what the last "observe" Fleet Rule read from its context
  files,         \* DataProcessor.run: the source files found, in processing order
  run,           \* DataProcessor.run: its position, file index and write index
  pending_outputs, \* DataProcessor.run: what is to be written after finalize
  outputs,       \* the output files written so far
  snapshots,     \* history: each device map as it was when its record was appended
  trace,         \* history: the calls, rule invocations and issues so far
  call,          \* a function call looked at on its own: its input and its result
  other,         \* the Session object the client is not addressing, if it has two
  registry,      \* the rule-source's DATA_RULES and FLEET_RULES lists, as they are now
  journal        \* history: which Session was addressed when, and how calls ended

runVars == <<files, run, pending_outputs, outputs>>
moreVars == <<call, other, registry, journal>>

vars == <<args, engine, error, _rules, _fleet_rules, _issues, _devices, heap, pc,
          frame, result, fleetSeen, snapshots, trace, runVars, moreVars>>

\* ------------------------------------------------------------------ helpers
Event(ev, idx, dev, text) == [ev |-> ev, idx |-> idx, dev |-> dev, text |-> text]

Count(ev) == Cardinality({n \in DOMAIN trace : trace[n].ev = ev})

NoFrame ==
  [device |-> None, site |-> None, source_path |-> None, display |-> None,
   i |-> 0, devices |-> <<>>]

NoResult == [kind |-> "none", issues |-> <<>>, message |-> ""]

RECURSIVE Join(_, _)
\* str.join: the items with the separator between neighbours
Join(items, sep) ==
  IF Len(items) = 0 THEN ""
  ELSE IF Len(items) = 1 THEN items[1]
  ELSE items[1] \o sep \o Join(Tail(items), sep)

\* RuleViolationError(issues): .issues is a tuple copy, the message the join
RuleViolationError(issues) ==
  [kind |-> "raised", issues |-> issues, message |-> Join(issues, "\n\n")]

\* RuleContext.hostname
ContextHostname(device) == IF device.hostname # None THEN device.hostname ELSE ""

\* the text of each entry
Texts(events) == [n \in DOMAIN events |-> events[n].text]

\* ------------------------------------------------------- the built-in rules
\* A value that is not a str (a list, a number) where a str is expected; like
\* None it is a marker of its own.
NotAStr == "not-a-str"
IsStr(value) == value \notin {None, NotAStr}

\* variant: the domain is written whatever the vendor
assign_site_domains_AnyVendor(device, site) ==
  LET current == device.domain
      desired == site \o ".example.com"
  IN IF IsStr(current) /\ current # desired
     THEN [device EXCEPT !.domain = desired]
     ELSE device

\* rules/__init__.py, assign_site_domains
assign_site_domains(device, site) ==
  LET current == device.domain
      desired == site \o ".example.com"
  IN IF device.vendor # "juniper" THEN device
     ELSE IF IsStr(current) /\ current # desired
     THEN [device EXCEPT !.domain = desired]
     ELSE device

\* rules/__init__.py, suppress_matches_for_wgw01; matches is Nothing while the
\* dict has no such key
suppress_matches_for_wgw01(device) ==
  IF ContextHostname(device) = "wgw01.nyc01"
  THEN [device EXCEPT !.matches = Some(<<>>)]
  ELSE device

\* str.find and str.rfind of one character: 0 when it is not there
Find(text, c) ==
  IF HasChar(text, c)
  THEN CHOOSE i \in 1..Len(text) :
         /\ SubSeq(text, i, i) = c
         /\ \A k \in 1..(i - 1) : SubSeq(text, k, k) # c
  ELSE 0
RFind(text, c) ==
  IF HasChar(text, c)
  THEN CHOOSE i \in 1..Len(text) :
         /\ SubSeq(text, i, i) = c
         /\ \A k \in (i + 1)..Len(text) : SubSeq(text, k, k) # c
  ELSE 0

\* Path.stem: the last component without its last suffix
Stem(path) ==
  LET name == SubSeq(path, RFind(path, "/") + 1, Len(path))
      dot == RFind(name, ".")
  IN IF dot > 1 THEN SubSeq(name, 1, dot - 1) ELSE name

\* DeviceRecord.hostname
RecordHostname(record) ==
  LET value == heap[record.device].hostname
  IN IF IsStr(value) /\ value # "" THEN value ELSE Stem(record.source_path)

\* ipaddress.ip_interface on the address texts of the model: the address before
\* the "/", the prefix length or netmask after it (32 or 128 without one)
V4Addresses == {"10.2.0.1", "10.10.0.1", "10.3.0.1"}
V6Exploded(address) ==
  IF address = "2001:db8::1" THEN "2001:0db8:0000:0000:0000:0000:0000:0001" ELSE None
V4PrefixLen(prefix) ==
  CASE prefix \in {"16", "24", "32"} -> prefix
    [] prefix = "255.255.255.0" -> "24"
    [] OTHER -> None
ip_interface(raw) ==
  LET slash == Find(raw, "/")
      address == IF slash = 0 THEN raw ELSE SubSeq(raw, 1, slash - 1)
      prefix == IF slash = 0 THEN None ELSE SubSeq(raw, slash + 1, Len(raw))
      v4len == IF slash = 0 THEN "32" ELSE V4PrefixLen(prefix)
      v6len == IF slash = 0 THEN "128" ELSE IF prefix = "64" THEN "64" ELSE None
  IN IF address \in V4Addresses /\ v4len # None
     THEN [raised |-> FALSE, version |-> 4, exploded |-> address,
           with_prefixlen |-> address \o "/" \o v4len, message |-> ""]
     ELSE IF V6Exploded(address) # None /\ v6len # None
     THEN [raised |-> FALSE, version |-> 6, exploded |-> V6Exploded(address),
           with_prefixlen |-> address \o "/" \o v6len, message |-> ""]
     ELSE [raised |-> TRUE, version |-> 0, exploded |-> "", with_prefixlen |-> "",
           message |-> Repr(raw) \o " does not appear to be an IPv4 or IPv6 interface"]

\* variant: the assignments are keyed by the address with its prefix length
InterfaceOutcome_KeyedWithPrefix(record, iface) ==
  IF ~iface.isdict \/ iface.ipv4 \in {None, ""} THEN <<>>
  ELSE LET parsed == ip_interface(iface.ipv4)
       IN IF parsed.raised
          THEN <<[kind |-> "error", key |-> "",
                  text |-> record.display_path \o ": interface " \o iface.name
                             \o " has invalid IPv4 '" \o iface.ipv4 \o "': "
                             \o parsed.message]>>
          ELSE IF parsed.version # 4
          THEN <<[kind |-> "error", key |-> "",
                  text |-> record.display_path \o ": interface " \o iface.name
                             \o " has non-IPv4 address '" \o iface.ipv4 \o "'"]>>
          ELSE <<[kind |-> "assignment", key |-> parsed.with_prefixlen,
                  text |-> record.display_path \o "::" \o iface.name \o " ("
                             \o RecordHostname(record) \o ", "
                             \o parsed.with_prefixlen \o ")"]>>

\* what the inner loop of ensure_unique_ipv4_allocations does for one interface
\* of a record: nothing, an entry of errors, or an entry of assignments[key]
InterfaceOutcome(record, iface) ==
  IF ~iface.isdict \/ iface.ipv4 \in {None, ""} THEN <<>>
  ELSE LET parsed == ip_interface(iface.ipv4)
       IN IF parsed.raised
          THEN <<[kind |-> "error", key |-> "",
                  text |-> record.display_path \o ": interface " \o iface.name
                             \o " has invalid IPv4 '" \o iface.ipv4 \o "': "
                             \o parsed.message]>>
          ELSE IF parsed.version # 4
          THEN <<[kind |-> "error", key |-> "",
                  text |-> record.display_path \o ": interface " \o iface.name
                             \o " has non-IPv4 address '" \o iface.ipv4 \o "'"]>>
          ELSE <<[kind |-> "assignment", key |-> parsed.exploded,
                  text |-> record.display_path \o "::" \o iface.name \o " ("
                             \o RecordHostname(record) \o ", "
                             \o parsed.with_prefixlen \o ")"]>>

RECURSIVE Concat(_)
Concat(lists) == IF lists = <<>> THEN <<>> ELSE Head(lists) \o Concat(Tail(lists))

\* the two loops, lines 80-112: the outcomes in the order they are produced
InterfaceOutcomes(devices) ==
  Concat([n \in DOMAIN devices |->
            LET interfaces == heap[devices[n].device].interfaces
            IN IF ~interfaces.given THEN <<>>
               ELSE Concat([k \in DOMAIN interfaces.items |->
                              InterfaceOutcome(devices[n], interfaces.items[k])])])

\* the order of str: by code point, a proper prefix first
CharRank(c) ==
  CASE c = "." -> 46 [] c = "/" -> 47 [] c = "0" -> 48 [] c = "1" -> 49 [] c = "2" -> 50
    [] c = "3" -> 51 [] c = "4" -> 52 [] c = "5" -> 53 [] c = "6" -> 54
    [] c = "7" -> 55 [] c = "8" -> 56 [] c = "9" -> 57
RECURSIVE StrLess(_, _)
StrLess(a, b) ==
  IF b = "" THEN FALSE
  ELSE IF a = "" THEN TRUE
  ELSE LET x == CharRank(SubSeq(a, 1, 1))
           y == CharRank(SubSeq(b, 1, 1))
       IN IF x # y THEN x < y
          ELSE StrLess(SubSeq(a, 2, Len(a)), SubSeq(b, 2, Len(b)))

RECURSIVE Sorted_ByLength(_)
\* variant: shorter texts first, texts of one length by code point
Sorted_ByLength(texts) ==
  IF texts = {} THEN <<>>
  ELSE LET least == CHOOSE t \in texts :
                      \A u \in texts \ {t} :
                        \/ Len(t) < Len(u)
                        \/ Len(t) = Len(u) /\ StrLess(t, u)
       IN <<least>> \o Sorted_ByLength(texts \ {least})

RECURSIVE Sorted(_)
\* sorted() of a set of str
Sorted(texts) ==
  IF texts = {} THEN <<>>
  ELSE LET least == CHOOSE t \in texts : \A u \in texts \ {t} : StrLess(t, u)
       IN <<least>> \o Sorted(texts \ {least})

\* variant: every entry of errors is reported as an issue of its own
ensure_unique_ipv4_allocations_IssuePerError(devices) ==
  LET outcomes == InterfaceOutcomes(devices)
      errors == Texts(SelectSeq(outcomes, LAMBDA o : o.kind = "error"))
      entries(ip) ==
        Texts(SelectSeq(outcomes, LAMBDA o : o.kind = "assignment" /\ o.key = ip))
      duplicates ==
        {outcomes[n].key : n \in {m \in DOMAIN outcomes :
                                    /\ outcomes[m].kind = "assignment"
                                    /\ Len(entries(outcomes[m].key)) > 1}}
      ordered == Sorted(duplicates)
      lines ==
        <<"Duplicate IPv4 addresses detected:">>
          \o Concat([n \in DOMAIN ordered |->
                       <<"  " \o ordered[n]>>
                         \o [k \in DOMAIN entries(ordered[n]) |->
                               "    " \o entries(ordered[n])[k]]])
  IN errors \o (IF duplicates # {} THEN <<Join(lines, "\n")>> ELSE <<>>)

\* rules/__init__.py, ensure_unique_ipv4_allocations: the messages it passes to
\* context.report_issue
ensure_unique_ipv4_allocations(devices) ==
  LET outcomes == InterfaceOutcomes(devices)
      errors == Texts(SelectSeq(outcomes, LAMBDA o : o.kind = "error"))
      entries(ip) ==
        Texts(SelectSeq(outcomes, LAMBDA o : o.kind = "assignment" /\ o.key = ip))
      duplicates ==
        {outcomes[n].key : n \in {m \in DOMAIN outcomes :
                                    /\ outcomes[m].kind = "assignment"
                                    /\ Len(entries(outcomes[m].key)) > 1}}
      ordered == Sorted(duplicates)
      lines ==
        <<"Duplicate IPv4 addresses detected:">>
          \o Concat([n \in DOMAIN ordered |->
                       <<"  " \o ordered[n]>>
                         \o [k \in DOMAIN entries(ordered[n]) |->
                               "    " \o entries(ordered[n])[k]]])
  IN (IF errors # <<>> THEN <<Join(errors, "\n")>> ELSE <<>>)
       \o (IF duplicates # {} THEN <<Join(lines, "\n")>> ELSE <<>>)

\* what a device Rule of the given kind writes into the device
DeviceRuleWrite(kind, device, site) ==
  CASE kind = "mutate" -> [device EXCEPT !.domain = site \o ".example.com"]
    [] kind = "assign_site_domains" -> assign_site_domains(device, site)
    [] kind = "suppress_matches_for_wgw01" -> suppress_matches_for_wgw01(device)
    [] OTHER -> device

\* the issues a device Rule of the given kind reports
DeviceRuleIssues(kind, idx, device, site) ==
  IF kind = "report"
  THEN <<"rule " \o ToString(idx) \o ": " \o ContextHostname(device) \o "@" \o site>>
  ELSE <<>>

\* the issues a Fleet Rule of the given kind reports
FleetRuleIssues(kind, idx, devices) ==
  CASE kind = "freport" ->
         <<"fleet rule " \o ToString(idx) \o ": " \o ToString(Len(devices))
             \o " device(s)">>
    [] kind = "ensure_unique_ipv4_allocations" -> ensure_unique_ipv4_allocations(devices)
    [] OTHER -> <<>>

\* what a Fleet Rule reads through record.device for every record of its context
FleetRuleReads(devices) == [n \in DOMAIN devices |-> heap[devices[n].device]]

IssueEvents(issues, idx, dev) ==
  [n \in DOMAIN issues |-> Event("issue", idx, dev, issues[n])]

\* --------------------------------------------------------------- the session
Init ==
  /\ args \in EngineArgs
  /\ engine = NoEngine
  /\ error = NoError
  /\ _rules = <<>>
  /\ _fleet_rules = <<>>
  /\ _issues = <<>>
  /\ _devices = <<>>
  /\ heap = [d \in DevIds |-> InitialDevice(d)]
  /\ pc = "new"
  /\ frame = NoFrame
  /\ result = NoResult
  /\ fleetSeen = <<>>
  /\ snapshots = <<>>
  /\ trace = <<>>
  /\ files = <<>>
  /\ run = NoRun
  /\ pending_outputs = <<>>
  /\ outputs = <<>>
  /\ call = NoCall
  /\ other = NoSession
  /\ registry = NoRegistry
  /\ journal = <<>>

\* the DeviceRecord apply appends: it holds the device by reference
DeviceRecord(device, site, source_path, display_path) ==
  [device |-> device, site |-> site, source_path |-> source_path,
   display_path |-> display_path]

\* RuleEngine(...): the engine exists only if __init__ returns
Construct ==
  /\ pc = "new"
  /\ LET made == RuleEngineInit(args.module_name, args.rules, args.fleet_rules)
     IN IF made.raised
        THEN /\ pc' = "failed"
             /\ error' = [error |-> made.error, message |-> made.message]
             /\ UNCHANGED engine
        ELSE /\ pc' = "engine"
             /\ engine' = [constructed |-> TRUE, rules |-> made.rules,
                           fleet_rules |-> made.fleet_rules,
                           _loaded_from_module |-> ~args.rules.given]
             /\ UNCHANGED error
  /\ UNCHANGED runVars
  /\ UNCHANGED moreVars
  /\ UNCHANGED <<args, _rules, _fleet_rules, _issues, _devices, heap, frame,
                 result, fleetSeen, snapshots, trace>>

\* variant: the engine keeps one issue list and hands it to every session
CreateSession_SharedIssues ==
  /\ pc = "engine"
  /\ _rules' = engine.rules
  /\ _fleet_rules' = engine.fleet_rules
  /\ _devices' = <<>>
  /\ pc' = "idle"
  /\ UNCHANGED moreVars
  /\ UNCHANGED runVars
  /\ UNCHANGED <<args, engine, error, _issues, heap, frame, result, fleetSeen,
                 snapshots, trace>>

\* RuleEngine.create_session and RuleEngineSession.__init__
CreateSession ==
  /\ pc = "engine"
  /\ _rules' = engine.rules
  /\ _fleet_rules' = engine.fleet_rules
  /\ _issues' = <<>>
  /\ _devices' = <<>>
  /\ pc' = "idle"
  /\ UNCHANGED runVars
  /\ UNCHANGED moreVars
  /\ UNCHANGED <<args, engine, error, heap, frame, result, fleetSeen, snapshots,
                 trace>>

\* variant: apply without the early return for an empty Rule Set
ApplyCall_NoShortCircuit(device, site, source_path, display_path) ==
  /\ pc = "idle"
  /\ pc' = "apply"
  /\ frame' = [NoFrame EXCEPT
                 !.device = device, !.site = site, !.source_path = source_path,
                 !.display = IF display_path = None \/ display_path = ""
                             THEN source_path ELSE display_path,
                 !.i = 1]
  /\ trace' = Append(trace, Event("apply", 0, device, site))
  /\ UNCHANGED moreVars
  /\ UNCHANGED <<args, engine, error, _rules, _fleet_rules, _issues, _devices, heap,
                 result, fleetSeen, snapshots>>

\* variant: apply appends the DeviceRecord before the device Rules run
ApplyCall_RecordsFirst(device, site, source_path, display_path) ==
  /\ pc = "idle"
  /\ _rules # <<>> \/ _fleet_rules # <<>>
  /\ pc' = "apply"
  /\ frame' = [NoFrame EXCEPT
                 !.device = device, !.site = site, !.source_path = source_path,
                 !.display = IF display_path = None \/ display_path = ""
                             THEN source_path ELSE display_path,
                 !.i = 1]
  /\ _devices' = Append(_devices, DeviceRecord(device, site, source_path, display_path))
  /\ trace' = trace \o <<Event("apply", 0, device, site),
                         Event("record", Len(_devices) + 1, device, "")>>
  /\ UNCHANGED moreVars
  /\ UNCHANGED <<args, engine, error, _rules, _fleet_rules, _issues, heap, result,
                 fleetSeen, snapshots>>

\* apply, lines 192-201: the empty Rule Set returns at once, otherwise the
\* display path and the context are built
ApplyCall(device, site, source_path, display_path) ==
  /\ pc = "idle"
  /\ IF _rules = <<>> /\ _fleet_rules = <<>>
     THEN /\ trace' = trace \o <<Event("apply", 0, device, site),
                                 Event("applied", 0, device, "")>>
          /\ UNCHANGED <<pc, frame>>
     ELSE /\ pc' = "apply"
          /\ frame' = [NoFrame EXCEPT
                         !.device = device, !.site = site,
                         !.source_path = source_path,
                         !.display = IF display_path = None \/ display_path = ""
                                     THEN source_path ELSE display_path,
                         !.i = 1]
          /\ trace' = Append(trace, Event("apply", 0, device, site))
  /\ UNCHANGED moreVars
  /\ UNCHANGED <<args, engine, error, _rules, _fleet_rules, _issues, _devices, heap,
                 result, fleetSeen, snapshots>>

\* variant: the first issue a device Rule reports is raised at once
ApplyRule_FailFast ==
  /\ pc = "apply"
  /\ frame.i <= Len(_rules)
  /\ LET kind == _rules[frame.i]
         written == DeviceRuleWrite(kind, heap[frame.device], frame.site)
         issues == DeviceRuleIssues(kind, frame.i, written, frame.site)
     IN /\ heap' = [heap EXCEPT ![frame.device] = written]
        /\ _issues' = _issues \o issues
        /\ IF issues # <<>>
           THEN /\ trace' = (Append(trace, Event("rule", frame.i, frame.device, kind))
                               \o IssueEvents(issues, frame.i, frame.device))
                               \o <<Event("raised", 0, None, "")>>
                /\ result' = RuleViolationError(_issues \o issues)
                /\ pc' = "idle"
                /\ frame' = NoFrame
           ELSE /\ trace' = Append(trace, Event("rule", frame.i, frame.device, kind))
                /\ frame' = [frame EXCEPT !.i = @ + 1]
                /\ UNCHANGED <<pc, result>>
  /\ UNCHANGED runVars
  /\ UNCHANGED moreVars
  /\ UNCHANGED <<args, engine, error, _rules, _fleet_rules, _devices, fleetSeen,
                 snapshots>>

\* apply, lines 202-203: one iteration of the loop over self._rules; calling an
\* entry that is not callable raises TypeError out of apply
ApplyRule ==
  /\ pc = "apply"
  /\ frame.i <= Len(_rules)
  /\ LET kind == _rules[frame.i]
         device == heap[frame.device]
         written == DeviceRuleWrite(kind, device, frame.site)
         issues == DeviceRuleIssues(kind, frame.i, written, frame.site)
     IN IF Callable(kind)
        THEN /\ heap' = [heap EXCEPT ![frame.device] = written]
             /\ _issues' = _issues \o issues
             /\ trace' = Append(trace, Event("rule", frame.i, frame.device, kind))
                           \o IssueEvents(issues, frame.i, frame.device)
             /\ frame' = [frame EXCEPT !.i = @ + 1]
             /\ UNCHANGED pc
        ELSE /\ trace' = Append(trace, Event("typeerror", frame.i, frame.device, kind))
             /\ pc' = "idle"
             /\ frame' = NoFrame
             /\ UNCHANGED <<heap, _issues>>
  /\ UNCHANGED runVars
  /\ UNCHANGED moreVars
  /\ UNCHANGED <<args, engine, error, _rules, _fleet_rules, _devices, result,
                 fleetSeen, snapshots>>

\* variant: a device that already has a record gets no second one
ApplyRecord_OncePerDevice ==
  /\ pc = "apply"
  /\ frame.i > Len(_rules)
  /\ IF \E n \in DOMAIN _devices : _devices[n].device = frame.device
     THEN /\ UNCHANGED <<_devices, snapshots>>
          /\ trace' = Append(trace, Event("applied", 0, frame.device, ""))
     ELSE /\ _devices' = Append(_devices,
               DeviceRecord(frame.device, frame.site, frame.source_path, frame.display))
          /\ snapshots' = Append(snapshots, heap[frame.device])
          /\ trace' = trace \o <<Event("record", Len(_devices) + 1, frame.device, ""),
                                 Event("applied", 0, frame.device, "")>>
  /\ pc' = "idle"
  /\ frame' = NoFrame
  /\ UNCHANGED runVars
  /\ UNCHANGED moreVars
  /\ UNCHANGED <<args, engine, error, _rules, _fleet_rules, _issues, heap, result,
                 fleetSeen>>

\* apply, lines 205-212: the loop is over, the record is appended
ApplyRecord ==
  /\ pc = "apply"
  /\ frame.i > Len(_rules)
  /\ _devices' = Append(_devices,
       DeviceRecord(frame.device, frame.site, frame.source_path, frame.display))
  /\ trace' = trace \o <<Event("record", Len(_devices) + 1, frame.device, ""),
                         Event("applied", 0, frame.device, "")>>
  /\ snapshots' = Append(snapshots, heap[frame.device])
  /\ pc' = "idle"
  /\ frame' = NoFrame
  /\ UNCHANGED runVars
  /\ UNCHANGED moreVars
  /\ UNCHANGED <<args, engine, error, _rules, _fleet_rules, _issues, heap, result,
                 fleetSeen>>

\* variant: finalize returns early whenever there is no Fleet Rule
FinalizeCall_ReturnsWithoutFleetRules ==
  /\ pc = "idle"
  /\ IF _fleet_rules = <<>>
     THEN /\ result' = [NoResult EXCEPT !.kind = "returned"]
          /\ trace' = trace \o <<Event("finalize", 0, None, ""),
                                 Event("returned", 0, None, "")>>
          /\ UNCHANGED <<pc, frame>>
     ELSE /\ pc' = "finalize"
          /\ frame' = [NoFrame EXCEPT !.devices = _devices, !.i = 1]
          /\ result' = NoResult
          /\ trace' = Append(trace, Event("finalize", 0, None, ""))
  /\ UNCHANGED moreVars
  /\ UNCHANGED <<args, engine, error, _rules, _fleet_rules, _issues, _devices, heap,
                 fleetSeen, snapshots>>

\* finalize, lines 216-223 (and 227-228 when there is no Fleet Rule)
FinalizeCall ==
  /\ pc = "idle"
  /\ IF _fleet_rules = <<>> /\ _issues = <<>>
     THEN /\ result' = [NoResult EXCEPT !.kind = "returned"]
          /\ trace' = trace \o <<Event("finalize", 0, None, ""),
                                 Event("returned", 0, None, "")>>
          /\ UNCHANGED <<pc, frame>>
     ELSE IF _fleet_rules # <<>>
     THEN /\ pc' = "finalize"
          /\ frame' = [NoFrame EXCEPT !.devices = _devices, !.i = 1]
          /\ result' = NoResult
          /\ trace' = Append(trace, Event("finalize", 0, None, ""))
     ELSE /\ result' = RuleViolationError(_issues)
          /\ trace' = trace \o <<Event("finalize", 0, None, ""),
                                 Event("raised", 0, None, "")>>
          /\ UNCHANGED <<pc, frame>>
  /\ UNCHANGED moreVars
  /\ UNCHANGED <<args, engine, error, _rules, _fleet_rules, _issues, _devices, heap,
                 fleetSeen, snapshots>>

\* finalize, lines 224-225: one iteration of the loop over self._fleet_rules
FinalizeFleetRule ==
  /\ pc = "finalize"
  /\ frame.i <= Len(_fleet_rules)
  /\ LET kind == _fleet_rules[frame.i]
         issues == FleetRuleIssues(kind, frame.i, frame.devices)
     IN IF Callable(kind)
        THEN /\ _issues' = _issues \o issues
             /\ fleetSeen' = IF kind = "observe" THEN FleetRuleReads(frame.devices)
                             ELSE fleetSeen
             /\ trace' = Append(trace, Event("fleet", frame.i, None, kind))
                           \o IssueEvents(issues, frame.i, None)
             /\ frame' = [frame EXCEPT !.i = @ + 1]
             /\ UNCHANGED pc
        ELSE /\ trace' = Append(trace, Event("typeerror", frame.i, None, kind))
             /\ pc' = "idle"
             /\ frame' = NoFrame
             /\ UNCHANGED <<_issues, fleetSeen>>
  /\ UNCHANGED runVars
  /\ UNCHANGED moreVars
  /\ UNCHANGED <<args, engine, error, _rules, _fleet_rules, _devices, heap, result,
                 snapshots>>

\* variant: finalize empties the issue list once it has raised
FinalizeEnd_ClearsIssues ==
  /\ pc = "finalize"
  /\ frame.i > Len(_fleet_rules)
  /\ IF _issues # <<>>
     THEN /\ result' = RuleViolationError(_issues)
          /\ trace' = Append(trace, Event("raised", 0, None, ""))
     ELSE /\ result' = [NoResult EXCEPT !.kind = "returned"]
          /\ trace' = Append(trace, Event("returned", 0, None, ""))
  /\ _issues' = <<>>
  /\ pc' = "idle"
  /\ frame' = NoFrame
  /\ UNCHANGED runVars
  /\ UNCHANGED moreVars
  /\ UNCHANGED <<args, engine, error, _rules, _fleet_rules, _devices, heap,
                 fleetSeen, snapshots>>

\* finalize, lines 227-228: raise if any issue was recorded
FinalizeEnd ==
  /\ pc = "finalize"
  /\ frame.i > Len(_fleet_rules)
  /\ IF _issues # <<>>
     THEN /\ result' = RuleViolationError(_issues)
          /\ trace' = Append(trace, Event("raised", 0, None, ""))
     ELSE /\ result' = [NoResult EXCEPT !.kind = "returned"]
          /\ trace' = Append(trace, Event("returned", 0, None, ""))
  /\ pc' = "idle"
  /\ frame' = NoFrame
  /\ UNCHANGED runVars
  /\ UNCHANGED moreVars
  /\ UNCHANGED <<args, engine, error, _rules, _fleet_rules, _issues, _devices, heap,
                 fleetSeen, snapshots>>

\* the caller of apply writes the $schema key into the dict it passed, right
\* after apply has returned (DataProcessor._process_file, line 183)
WriteSchema(device) ==
  /\ pc = "idle"
  /\ trace # <<>>
  /\ trace[Len(trace)] = Event("applied", 0, device, "")
  /\ heap[device].schema = None
  /\ heap' = [heap EXCEPT ![device].schema = SchemaRef]
  /\ UNCHANGED runVars
  /\ UNCHANGED moreVars
  /\ UNCHANGED <<args, engine, error, _rules, _fleet_rules, _issues, _devices, pc,
                 frame, result, fleetSeen, snapshots, trace>>

\* a client of the session: apply for some device, finalize at any time
ClientApply(a) ==
  /\ Count("apply") + Count("finalize") < MaxCalls
  /\ ApplyCall(a.device, a.site, SourcePathOf(a.device), a.display_path)
  /\ UNCHANGED runVars

ClientFinalize ==
  /\ Count("apply") + Count("finalize") < MaxCalls
  /\ FinalizeCall
  /\ UNCHANGED runVars

Next ==
  \/ Construct
  \/ CreateSession
  \/ \E a \in ApplyArgs : ClientApply(a)
  \/ ApplyRule
  \/ ApplyRecord
  \/ ClientFinalize
  \/ FinalizeFleetRule
  \/ FinalizeEnd
  \/ \E d \in DevIds : WriteSchema(d)

Spec == Init /\ [][Next]_vars

\* ------------------------------------------------------------ DataProcessor
\* A source file: its site directory, its name and the JSON object it holds.
SourceFile(site, name, hostname, iface, ipv4, serial_number) ==
  [site |-> site, name |-> name,
   raw |-> [hostname |-> hostname, domain |-> "example.com",
            interfaces |-> <<[name |-> iface, ipv4 |-> ipv4]>>,
            serial_number |-> serial_number, schema |-> None]]

\* the files of the source directory, as _iter_source_files sorts them
SourceFiles ==
  <<SourceFile("nyc01", "wgw01.json", "wgw01.nyc01", "GigabitEthernet1/1",
               <<"<", "ipam", ">">>, <<"<", "asset", ">">>),
    SourceFile("nyc01", "wgw02.json", "wgw02.nyc01", "GigabitEthernet1/1",
               <<"10.2.0.2/24">>, <<"<", "ipam", ">">>),
    SourceFile("sfo01", "wgw01.json", None, "ge-0/0/0",
               <<"<", "IPAM", "|", "sfo01", "|", "wgw01.sfo01", ">", " ">>,
               <<"FTX0000">>),
    SourceFile("sfo01", "wgw02.json", "wgw02.sfo01", "ge-0/0/0",
               <<"<", "ipam", ">">>, <<"FTX0001">>)>>

\* the members of a set of indices of s, in the order of s
Pick(s, indices) ==
  LET order == CHOOSE f \in [1..Cardinality(indices) -> indices] :
                 \A i, j \in 1..Cardinality(indices) : i < j => f[i] < f[j]
  IN [n \in 1..Cardinality(indices) |-> s[order[n]]]

FileLists ==
  {Pick(SourceFiles, indices) :
     indices \in {x \in SUBSET DOMAIN SourceFiles : Cardinality(x) <= MaxFiles}}

\* the engines a processor is given (ProcessorDependencies.rules_engine)
RunEngineArgs ==
  {[module_name |-> DEFAULT_RULES_MODULE, rules |-> Some(<<>>), fleet_rules |-> Nothing],
   [module_name |-> DEFAULT_RULES_MODULE, rules |-> Some(<<"mutate">>),
    fleet_rules |-> Nothing],
   [module_name |-> DEFAULT_RULES_MODULE, rules |-> Some(<<"report">>),
    fleet_rules |-> Some(<<"observe">>)],
   [module_name |-> DEFAULT_RULES_MODULE, rules |-> Some(<<"mutate">>),
    fleet_rules |-> Some(<<"freport">>)],
   [module_name |-> DEFAULT_RULES_MODULE, rules |-> Some(<<"mutate">>),
    fleet_rules |-> Some(<<"observe">>)],
   [module_name |-> "listed_rules", rules |-> Nothing, fleet_rules |-> Nothing]}

FilePath(file) == "data/" \o file.site \o "/" \o file.name
\* the identity of the dict deepcopy makes for the k-th file
FileDevice(k) == "file" \o ToString(k)

InitRun ==
  /\ args \in RunEngineArgs
  /\ LET made == RuleEngineInit(args.module_name, args.rules, args.fleet_rules)
     IN engine = [constructed |-> TRUE, rules |-> made.rules,
                  fleet_rules |-> made.fleet_rules,
                  _loaded_from_module |-> ~args.rules.given]
  /\ error = NoError
  /\ _rules = <<>>
  /\ _fleet_rules = <<>>
  /\ _issues = <<>>
  /\ _devices = <<>>
  /\ heap = <<>>
  /\ pc = "engine"
  /\ frame = NoFrame
  /\ result = NoResult
  /\ fleetSeen = <<>>
  /\ snapshots = <<>>
  /\ trace = <<>>
  /\ files \in FileLists
  /\ run = [NoRun EXCEPT !.pc = "start"]
  /\ pending_outputs = <<>>
  /\ outputs = <<>>
  /\ call = NoCall
  /\ other = NoSession
  /\ registry = NoRegistry
  /\ journal = <<>>

\* run, lines 113-119: nothing to do without files, else a session is created
RunStart ==
  /\ run.pc = "start"
  /\ pc = "engine"
  /\ IF files = <<>>
     THEN /\ run' = [run EXCEPT !.pc = "done"]
          /\ UNCHANGED <<_rules, _fleet_rules, _issues, _devices, pc>>
     ELSE /\ _rules' = engine.rules
          /\ _fleet_rules' = engine.fleet_rules
          /\ _issues' = <<>>
          /\ _devices' = <<>>
          /\ pc' = "idle"
          /\ run' = [run EXCEPT !.pc = "file", !.k = 1]
  /\ pending_outputs' = <<>>
  /\ UNCHANGED moreVars
  /\ UNCHANGED <<args, engine, error, heap, frame, result, fleetSeen, snapshots,
                 trace, files, outputs>>

RECURSIVE ResolveInterfaces(_, _, _)
\* _process_file, lines 154-162: the interfaces in order; the first failure ends it
ResolveInterfaces(interfaces, site, hostname) ==
  IF interfaces = <<>> THEN Returned(<<>>)
  ELSE LET details == Head(interfaces)
           value == _resolve_token(details.ipv4, site, hostname, details.name)
       IN IF value.raised THEN value
          ELSE LET others == ResolveInterfaces(Tail(interfaces), site, hostname)
               IN IF others.raised THEN others
                  ELSE Returned(<<[details EXCEPT !.ipv4 = value.value]>>
                                  \o others.value)

\* variant: the serial number is left as written
ProcessedFile_SerialUnresolved(file) ==
  LET raw == file.raw
      hostname == IF raw.hostname = None THEN "<unknown>" ELSE raw.hostname
      interfaces == ResolveInterfaces(raw.interfaces, file.site, hostname)
  IN IF interfaces.raised THEN interfaces
     ELSE Returned(<<[raw EXCEPT !.interfaces = interfaces.value]>>)

\* _process_file, lines 150-168: the copy of the file's object with its
\* interface addresses and serial number resolved, or the resolution error
ProcessedFile(file) ==
  LET raw == file.raw
      hostname == IF raw.hostname = None THEN "<unknown>" ELSE raw.hostname
      interfaces == ResolveInterfaces(raw.interfaces, file.site, hostname)
      serial == _resolve_token(raw.serial_number, file.site, hostname, None)
  IN IF interfaces.raised THEN interfaces
     ELSE IF serial.raised THEN serial
     ELSE Returned(<<[raw EXCEPT !.interfaces = interfaces.value,
                                 !.serial_number = serial.value]>>)

\* _process_file, lines 150-174, for the file run's loop is at
ProcessFileResolve ==
  /\ run.pc = "file"
  /\ pc = "idle"
  /\ LET processed == ProcessedFile(files[run.k])
     IN IF processed.raised
        THEN /\ error' = [error |-> processed.error, message |-> processed.message]
             /\ run' = [run EXCEPT !.pc = "raised"]
             /\ UNCHANGED <<heap, trace>>
        ELSE /\ heap' = (FileDevice(run.k) :> processed.value[1]) @@ heap
             /\ trace' = Append(trace, Event("resolved", run.k, FileDevice(run.k), ""))
             /\ run' = [run EXCEPT !.pc = "apply"]
             /\ UNCHANGED error
  /\ UNCHANGED moreVars
  /\ UNCHANGED <<args, engine, _rules, _fleet_rules, _issues, _devices, pc, frame,
                 result, fleetSeen, snapshots, files, pending_outputs, outputs>>

\* _process_file, lines 176-181: session.apply is entered
ProcessFileApply ==
  /\ run.pc = "apply"
  /\ LET file == files[run.k]
     IN ApplyCall(FileDevice(run.k), file.site, FilePath(file), FilePath(file))
  /\ run' = [run EXCEPT !.pc = "schema"]
  /\ UNCHANGED <<files, pending_outputs, outputs>>

\* variant: each file is written as soon as it has been processed
ProcessFileReturn_WritesAtOnce ==
  /\ run.pc = "schema"
  /\ pc = "idle"
  /\ heap' = [heap EXCEPT ![FileDevice(run.k)].schema = SchemaRef]
  /\ outputs' = Append(outputs,
       [site |-> files[run.k].site, filename |-> files[run.k].name,
        data |-> heap'[FileDevice(run.k)]])
  /\ trace' = Append(trace, Event("write", run.k, FileDevice(run.k), ""))
  /\ run' = IF run.k < Len(files) THEN [run EXCEPT !.pc = "file", !.k = @ + 1]
            ELSE [run EXCEPT !.pc = "finalize"]
  /\ UNCHANGED moreVars
  /\ UNCHANGED <<args, engine, error, _rules, _fleet_rules, _issues, _devices, pc,
                 frame, result, fleetSeen, snapshots, files, pending_outputs>>

\* _process_file, lines 183-184, and run, line 124, once apply has returned
ProcessFileReturn ==
  /\ run.pc = "schema"
  /\ pc = "idle"
  /\ heap' = [heap EXCEPT ![FileDevice(run.k)].schema = SchemaRef]
  /\ pending_outputs' = Append(pending_outputs,
       [data |-> FileDevice(run.k), site |-> files[run.k].site,
        filename |-> files[run.k].name])
  /\ run' = IF run.k < Len(files) THEN [run EXCEPT !.pc = "file", !.k = @ + 1]
            ELSE [run EXCEPT !.pc = "finalize"]
  /\ UNCHANGED moreVars
  /\ UNCHANGED <<args, engine, error, _rules, _fleet_rules, _issues, _devices, pc,
                 frame, result, fleetSeen, snapshots, trace, files, outputs>>

\* run, line 126: session.finalize is entered
RunFinalize ==
  /\ run.pc = "finalize"
  /\ FinalizeCall
  /\ run' = [run EXCEPT !.pc = "write"]
  /\ UNCHANGED <<files, pending_outputs, outputs>>

\* run, line 126: the RuleViolationError of finalize ends the run
RunRaise ==
  /\ run.pc = "write"
  /\ pc = "idle"
  /\ result.kind = "raised"
  /\ error' = [error |-> "RuleViolationError", message |-> result.message]
  /\ run' = [run EXCEPT !.pc = "raised"]
  /\ UNCHANGED moreVars
  /\ UNCHANGED <<args, engine, _rules, _fleet_rules, _issues, _devices, heap, pc,
                 frame, result, fleetSeen, snapshots, trace, files,
                 pending_outputs, outputs>>

\* run, lines 128-129, and _write_output: the next pending output is written
RunWrite ==
  /\ run.pc = "write"
  /\ pc = "idle"
  /\ result.kind = "returned"
  /\ run.w < Len(pending_outputs)
  /\ LET pending == pending_outputs[run.w + 1]
     IN /\ outputs' = Append(outputs,
             [site |-> pending.site, filename |-> pending.filename,
              data |-> heap[pending.data]])
        /\ trace' = Append(trace, Event("write", run.w + 1, pending.data, ""))
  /\ run' = [run EXCEPT !.w = @ + 1]
  /\ UNCHANGED moreVars
  /\ UNCHANGED <<args, engine, error, _rules, _fleet_rules, _issues, _devices, heap,
                 pc, frame, result, fleetSeen, snapshots, files, pending_outputs>>

\* run, line 131: every pending output has been written
RunDone ==
  /\ run.pc = "write"
  /\ pc = "idle"
  /\ result.kind = "returned"
  /\ run.w = Len(pending_outputs)
  /\ run' = [run EXCEPT !.pc = "done"]
  /\ UNCHANGED moreVars
  /\ UNCHANGED <<args, engine, error, _rules, _fleet_rules, _issues, _devices, heap,
                 pc, frame, result, fleetSeen, snapshots, trace, files,
                 pending_outputs, outputs>>

NextRun ==
  \/ RunStart
  \/ ProcessFileResolve
  \/ ProcessFileApply
  \/ ApplyRule
  \/ ApplyRecord
  \/ ProcessFileReturn
  \/ RunFinalize
  \/ FinalizeFleetRule
  \/ FinalizeEnd
  \/ RunRaise
  \/ RunWrite
  \/ RunDone

SpecRun == InitRun /\ [][NextRun]_vars

\* ------------------------------------------------- the convenience apply
\* RuleEngine.apply next to the calls it stands for. One engine is used twice,
\* in either order: through a Session the client creates, applies one device
\* to and finalizes (the dict "d1"), and through RuleEngine.apply (the dict
\* "d2", which starts with the same content). journal keeps how each ended.
ApplyEngineArgs ==
  {a \in EngineArgs :
     ~RuleEngineInit(a.module_name, a.rules, a.fleet_rules).raised}

ApplySites == {"nyc01", "sfo01"}

InitApply ==
  /\ args \in ApplyEngineArgs
  /\ engine = NoEngine
  /\ error = NoError
  /\ _rules = <<>>
  /\ _fleet_rules = <<>>
  /\ _issues = <<>>
  /\ _devices = <<>>
  /\ \E content \in {InitialDevice(d) : d \in DevIds} :
       heap = [d \in DevIds |-> content]
  /\ pc = "new"
  /\ frame = NoFrame
  /\ result = NoResult
  /\ fleetSeen = <<>>
  /\ snapshots = <<>>
  /\ trace = <<>>
  /\ files = <<>>
  /\ run = NoRun
  /\ pending_outputs = <<>>
  /\ outputs = <<>>
  /\ call \in {[NoCall EXCEPT !.fn = "RuleEngine.apply", !.output = None,
                               !.input = [site |-> site]] : site \in ApplySites}
  /\ other = NoSession
  /\ registry = NoRegistry
  /\ journal = <<>>

\* how a way of applying one device ended: the device, the outcome of
\* finalize, what the Fleet Rules were shown, and the engine as it is left
Ended(way, device) ==
  [way |-> way, device |-> heap[device], result |-> result,
   records |-> [n \in DOMAIN _devices |->
                  [site |-> _devices[n].site,
                   display_is_source |->
                     _devices[n].display_path = _devices[n].source_path]],
   engine |-> engine]
HasEnded(way) == \E n \in DOMAIN journal : journal[n].way = way
InsideEngineApply == call.output = "entered"
LastEvent == IF trace = <<>> THEN None ELSE trace[Len(trace)].ev

\* the client: session = engine.create_session()
SessionCreate ==
  /\ ~HasEnded("session")
  /\ CreateSession

\* the client: session.apply(device, site=site, source_path=source_path)
SessionApply ==
  /\ ~InsideEngineApply
  /\ ~\E n \in DOMAIN trace : trace[n].ev = "apply" /\ trace[n].dev = "d1"
  /\ ApplyCall("d1", call.input.site, SourcePathOf("d1"), None)
  /\ UNCHANGED runVars

\* the client: session.finalize(), right after apply has returned
SessionFinalize ==
  /\ ~InsideEngineApply
  /\ trace # <<>> /\ trace[Len(trace)] = Event("applied", 0, "d1", "")
  /\ FinalizeCall
  /\ UNCHANGED runVars

\* the client has the outcome and lets go of the session
SessionDrop ==
  /\ ~InsideEngineApply
  /\ pc = "idle"
  /\ ~HasEnded("session")
  /\ LastEvent \in {"returned", "raised"}
  /\ \E n \in DOMAIN trace : trace[n].ev = "apply" /\ trace[n].dev = "d1"
  /\ journal' = Append(journal, Ended("session", "d1"))
  /\ pc' = "engine"
  /\ UNCHANGED <<call, other, registry>>
  /\ UNCHANGED runVars
  /\ UNCHANGED <<args, engine, error, _rules, _fleet_rules, _issues, _devices, heap,
                 frame, result, fleetSeen, snapshots, trace>>

\* variant: RuleEngine.apply passes the file name as the display path
EngineApplyCall_NamesDisplay(device, site, source_path) ==
  /\ pc = "engine"
  /\ ~call.done
  /\ call' = [call EXCEPT !.output = "entered"]
  /\ _rules' = engine.rules
  /\ _fleet_rules' = engine.fleet_rules
  /\ _issues' = <<>>
  /\ _devices' = <<>>
  /\ IF engine.rules = <<>> /\ engine.fleet_rules = <<>>
     THEN /\ trace' = trace \o <<Event("apply", 0, device, site),
                                 Event("applied", 0, device, "")>>
          /\ pc' = "idle"
          /\ UNCHANGED frame
     ELSE /\ pc' = "apply"
          /\ frame' = [NoFrame EXCEPT
                         !.device = device, !.site = site,
                         !.source_path = source_path,
                         !.display = "device.json",
                         !.i = 1]
          /\ trace' = Append(trace, Event("apply", 0, device, site))
  /\ UNCHANGED <<other, registry, journal>>
  /\ UNCHANGED runVars
  /\ UNCHANGED <<args, engine, error, heap, result, fleetSeen, snapshots>>

\* RuleEngine.apply, lines 125-126: a session is created from the engine's
\* tuples and its apply is entered with the device, the site and the source
\* path, and with no display path
EngineApplyCall(device, site, source_path) ==
  /\ pc = "engine"
  /\ ~call.done
  /\ call' = [call EXCEPT !.output = "entered"]
  /\ _rules' = engine.rules
  /\ _fleet_rules' = engine.fleet_rules
  /\ _issues' = <<>>
  /\ _devices' = <<>>
  /\ IF engine.rules = <<>> /\ engine.fleet_rules = <<>>
     THEN /\ trace' = trace \o <<Event("apply", 0, device, site),
                                 Event("applied", 0, device, "")>>
          /\ pc' = "idle"
          /\ UNCHANGED frame
     ELSE /\ pc' = "apply"
          /\ frame' = [NoFrame EXCEPT
                         !.device = device, !.site = site,
                         !.source_path = source_path,
                         !.display = source_path,
                         !.i = 1]
          /\ trace' = Append(trace, Event("apply", 0, device, site))
  /\ UNCHANGED <<other, registry, journal>>
  /\ UNCHANGED runVars
  /\ UNCHANGED <<args, engine, error, heap, result, fleetSeen, snapshots>>

\* RuleEngine.apply, line 127: session.finalize() once session.apply is back
EngineApplyFinalize ==
  /\ InsideEngineApply
  /\ trace # <<>> /\ trace[Len(trace)] = Event("applied", 0, "d2", "")
  /\ FinalizeCall
  /\ UNCHANGED runVars

\* RuleEngine.apply returns, or the exception of finalize leaves it; the
\* session was a local of the call
EngineApplyReturn ==
  /\ InsideEngineApply
  /\ pc = "idle"
  /\ LastEvent \in {"returned", "raised"}
  /\ journal' = Append(journal, Ended("engine", "d2"))
  /\ call' = [call EXCEPT !.output = None, !.done = TRUE]
  /\ pc' = "engine"
  /\ UNCHANGED <<other, registry>>
  /\ UNCHANGED runVars
  /\ UNCHANGED <<args, engine, error, _rules, _fleet_rules, _issues, _devices, heap,
                 frame, result, fleetSeen, snapshots, trace>>

NextApply ==
  \/ Construct
  \/ SessionCreate
  \/ SessionApply
  \/ SessionFinalize
  \/ SessionDrop
  \/ EngineApplyCall("d2", call.input.site, SourcePathOf("d2"))
  \/ EngineApplyFinalize
  \/ EngineApplyReturn
  \/ ApplyRule
  \/ ApplyRecord
  \/ FinalizeFleetRule
  \/ FinalizeEnd

SpecApply == InitApply /\ [][NextApply]_vars

\* ------------------------------------------------- two sessions, one engine
\* A client that holds two Sessions of one engine and calls apply and finalize
\* on either. The Session it addresses is in _rules, _fleet_rules, _issues and
\* _devices; the one it does not address is in `other`. journal notes, each
\* time the client turns to a Session, how long the trace was. The
\* rule-source's DATA_RULES and FLEET_RULES lists can grow after the engine
\* was made (register, register_fleet).
SessionsEngineArgs == RunEngineArgs

InitSessions ==
  /\ args \in SessionsEngineArgs
  /\ engine = NoEngine
  /\ error = NoError
  /\ _rules = <<>>
  /\ _fleet_rules = <<>>
  /\ _issues = <<>>
  /\ _devices = <<>>
  /\ heap = [d \in DevIds |-> InitialDevice(d)]
  /\ pc = "new"
  /\ frame = NoFrame
  /\ result = NoResult
  /\ fleetSeen = <<>>
  /\ snapshots = <<>>
  /\ trace = <<>>
  /\ files = <<>>
  /\ run = NoRun
  /\ pending_outputs = <<>>
  /\ outputs = <<>>
  /\ call = NoCall
  /\ other = NoSession
  /\ registry = [DATA_RULES |-> ModuleTable(args.module_name).DATA_RULES.items,
                 FLEET_RULES |-> ModuleTable(args.module_name).FLEET_RULES.items]
  /\ journal = <<>>

\* the Session object that is addressed, as a value
Addressed ==
  [exists |-> TRUE, _rules |-> _rules, _fleet_rules |-> _fleet_rules,
   _issues |-> _issues, _devices |-> _devices]
\* the number of the Session that is addressed: the first one is 1
AddressedId == IF journal = <<>> THEN 1 ELSE journal[Len(journal)].session
Turn(session) == [at |-> Len(trace), session |-> session]

\* variant: the second Session gets the issue list of the first
CreateSecondSession_SharedIssues ==
  /\ pc = "idle"
  /\ ~other.exists
  /\ other' = Addressed
  /\ _rules' = engine.rules
  /\ _fleet_rules' = engine.fleet_rules
  /\ _issues' = _issues
  /\ _devices' = <<>>
  /\ journal' = Append(journal, Turn(2))
  /\ UNCHANGED <<call, registry>>
  /\ UNCHANGED runVars
  /\ UNCHANGED <<args, engine, error, heap, pc, frame, result, fleetSeen, snapshots,
                 trace>>

\* RuleEngine.create_session called again while the first Session is in use:
\* a new object with the engine's tuples and lists of its own
CreateSecondSession ==
  /\ pc = "idle"
  /\ ~other.exists
  /\ other' = Addressed
  /\ _rules' = engine.rules
  /\ _fleet_rules' = engine.fleet_rules
  /\ _issues' = <<>>
  /\ _devices' = <<>>
  /\ journal' = Append(journal, Turn(2))
  /\ UNCHANGED <<call, registry>>
  /\ UNCHANGED runVars
  /\ UNCHANGED <<args, engine, error, heap, pc, frame, result, fleetSeen, snapshots,
                 trace>>

\* the client's next call goes to its other Session; a call is never under way
\* when it does (the calls are synchronous)
TurnToOther ==
  /\ pc = "idle"
  /\ other.exists
  /\ journal[Len(journal)].at < Len(trace)
  /\ other' = Addressed
  /\ _rules' = other._rules
  /\ _fleet_rules' = other._fleet_rules
  /\ _issues' = other._issues
  /\ _devices' = other._devices
  /\ journal' = Append(journal, Turn(3 - AddressedId))
  /\ UNCHANGED <<call, registry>>
  /\ UNCHANGED runVars
  /\ UNCHANGED <<args, engine, error, heap, pc, frame, result, fleetSeen, snapshots,
                 trace>>

\* rules/__init__.py register: DATA_RULES.append(rule_callable), called by the
\* client between its calls on the engine and the Sessions
Register(rule_callable) ==
  /\ pc \in {"engine", "idle"}
  /\ Len(registry.DATA_RULES) + Len(registry.FLEET_RULES)
       < Len(ModuleTable(args.module_name).DATA_RULES.items)
         + Len(ModuleTable(args.module_name).FLEET_RULES.items) + MaxRegister
  /\ registry' = [registry EXCEPT !.DATA_RULES = Append(@, rule_callable)]
  /\ UNCHANGED <<call, other, journal>>
  /\ UNCHANGED runVars
  /\ UNCHANGED <<args, engine, error, _rules, _fleet_rules, _issues, _devices, heap,
                 pc, frame, result, fleetSeen, snapshots, trace>>

\* rules/__init__.py register_fleet: FLEET_RULES.append(rule_callable)
RegisterFleet(rule_callable) ==
  /\ pc \in {"engine", "idle"}
  /\ Len(registry.DATA_RULES) + Len(registry.FLEET_RULES)
       < Len(ModuleTable(args.module_name).DATA_RULES.items)
         + Len(ModuleTable(args.module_name).FLEET_RULES.items) + MaxRegister
  /\ registry' = [registry EXCEPT !.FLEET_RULES = Append(@, rule_callable)]
  /\ UNCHANGED <<call, other, journal>>
  /\ UNCHANGED runVars
  /\ UNCHANGED <<args, engine, error, _rules, _fleet_rules, _issues, _devices, heap,
                 pc, frame, result, fleetSeen, snapshots, trace>>

NextSessions ==
  \/ Construct
  \/ CreateSession
  \/ CreateSecondSession
  \/ TurnToOther
  \/ \E a \in ApplyArgs : ClientApply(a)
  \/ ApplyRule
  \/ ApplyRecord
  \/ ClientFinalize
  \/ FinalizeFleetRule
  \/ FinalizeEnd
  \/ Register("report")
  \/ RegisterFleet("freport")

SpecSessions == InitSessions /\ [][NextSessions]_vars

\* ---------------------------------------------------------------- discovery
\* Discovery looked at on its own: a rule-source that imports, and the two
\* discovery functions applied to it.
DiscoverableModules ==
  {[NoModule("ok") EXCEPT
      !.DATA_RULES = a.DATA_RULES, !.RULES = a.RULES,
      !.get_rules = a.get_rules, !.rules = a.rules,
      !.FLEET_RULES = a.FLEET_RULES,
      !.get_fleet_rules = a.get_fleet_rules, !.fleet_rules = a.fleet_rules,
      !.members = a.members] :
     a \in [DATA_RULES : {Nothing, Some(<<>>), Some(<<"report">>)},
            RULES : {Nothing, Some(<<"mutate">>)},
            get_rules : {Nothing, Some(<<>>), Some(<<"mutate", "report">>)},
            rules : {Nothing, Some(<<"report", "mutate">>)},
            FLEET_RULES : {Nothing, Some(<<>>), Some(<<"freport">>)},
            get_fleet_rules : {Nothing, Some(<<"observe">>)},
            fleet_rules : {Nothing, Some(<<"freport", "observe">>)},
            members : {<<>>,
                       <<Member("mutate", TRUE, FALSE),
                         Member("observe", FALSE, TRUE),
                         Member("mutate", TRUE, FALSE)>>,
                       <<Member("freport", FALSE, TRUE),
                         Member("report", FALSE, FALSE),
                         Member("observe", FALSE, TRUE)>>}]}

InitDiscover ==
  /\ args = [module_name |-> "discoverable_rules", rules |-> Nothing,
             fleet_rules |-> Nothing]
  /\ engine = NoEngine
  /\ error = NoError
  /\ _rules = <<>>
  /\ _fleet_rules = <<>>
  /\ _issues = <<>>
  /\ _devices = <<>>
  /\ heap = <<>>
  /\ pc = "new"
  /\ frame = NoFrame
  /\ result = NoResult
  /\ fleetSeen = <<>>
  /\ snapshots = <<>>
  /\ trace = <<>>
  /\ files = <<>>
  /\ run = NoRun
  /\ pending_outputs = <<>>
  /\ outputs = <<>>
  /\ call \in {[NoCall EXCEPT !.fn = "discover", !.input = m] :
                 m \in DiscoverableModules}
  /\ other = NoSession
  /\ registry = NoRegistry
  /\ journal = <<>>

\* _load_from_module, lines 142-143, on the imported module
Discover ==
  /\ call.fn = "discover"
  /\ ~call.done
  /\ call' = [call EXCEPT
                !.done = TRUE,
                !.output = [device_rules |-> _discover_device_rules(call.input),
                            fleet_rules |-> _discover_fleet_rules(call.input)]]
  /\ UNCHANGED <<other, registry, journal>>
  /\ UNCHANGED runVars
  /\ UNCHANGED <<args, engine, error, _rules, _fleet_rules, _issues, _devices, heap,
                 pc, frame, result, fleetSeen, snapshots, trace>>

NextDiscover == Discover

SpecDiscover == InitDiscover /\ [][NextDiscover]_vars


\* ---------------------------------------------- sessions of the built-in rules
\* an entry of a device's interfaces: a dict with or without an ipv4 value, or
\* something that is not a dict
Iface(name, raw) == [name |-> name, isdict |-> TRUE, ipv4 |-> raw]
NotADict(name) == [name |-> name, isdict |-> FALSE, ipv4 |-> None]

\* the interfaces value of a device: Nothing when it is not a dict
InterfaceMaps ==
  {Nothing,
   Some(<<>>),
   Some(<<Iface("ge-0/0/0", "10.2.0.1/24")>>),
   Some(<<Iface("ge-0/0/0", "10.2.0.1")>>),
   Some(<<Iface("ge-0/0/1", "10.10.0.1/24")>>),
   Some(<<Iface("ge-0/0/0", "10.2.0.1/24"), Iface("ge-0/0/1", "10.10.0.1/24")>>),
   Some(<<Iface("ge-0/0/0", "10.10.0.1/255.255.255.0"),
          Iface("ge-0/0/1", "10.2.0.1/16")>>),
   Some(<<Iface("ge-0/0/0", "10.3.0.1/24"), Iface("ge-0/0/1", "10.3.0.1/32")>>),
   Some(<<Iface("ge-0/0/0", "not-an-ip"), Iface("ge-0/0/1", "2001:db8::1/64")>>),
   Some(<<Iface("ge-0/0/0", "10.2.0.1/33"), Iface("ge-0/0/1", "10.2.0.1/24")>>),
   Some(<<NotADict("ge-0/0/0"), Iface("ge-0/0/1", "")>>),
   Some(<<Iface("ge-0/0/0", None), Iface("ge-0/0/1", "10.3.0.1/24")>>),
   Some(<<Iface("ge-0/0/0", "2001:db8::1/64")>>)}

BuiltinDevice(hostname, vendor, domain, matches, interfaces) ==
  [hostname |-> hostname, vendor |-> vendor, domain |-> domain,
   matches |-> matches, interfaces |-> interfaces]

\* the hostname key of each dict: the second device has none
BuiltinHostname(d) == IF d = "d1" THEN "wgw01.nyc01" ELSE None

\* the fleets the model draws from: devices that differ in vendor, domain and
\* matches, and devices that differ in their interfaces
BuiltinFleets ==
  {[d \in DevIds |->
      IF d = "d1"
      THEN BuiltinDevice(BuiltinHostname(d), vendor, domain, matches,
                         Some(<<Iface("ge-0/0/0", "10.2.0.1/24")>>))
      ELSE BuiltinDevice(BuiltinHostname(d), second.vendor, second.domain, Nothing,
                         Some(<<Iface("ge-0/0/0", "10.2.0.1/24")>>))] :
     vendor \in {"juniper", "cisco", None},
     domain \in {"example.com", "nyc01.example.com", None, NotAStr},
     matches \in {Nothing, Some(<<"system|>>|">>)},
     second \in {[vendor |-> "juniper", domain |-> "example.com"],
                 [vendor |-> "Juniper", domain |-> "example.com"],
                 [vendor |-> "juniper", domain |-> NotAStr]}}
  \cup
  {[d \in DevIds |->
      BuiltinDevice(BuiltinHostname(d), "juniper", "example.com", Nothing,
                    IF d = "d1" THEN first ELSE second)] :
     first \in InterfaceMaps, second \in InterfaceMaps}

\* RuleEngine() with no argument: the built-in rule-source. call.input keeps
\* the dicts as the client built them.
InitBuiltin ==
  /\ args = [module_name |-> DEFAULT_RULES_MODULE, rules |-> Nothing,
             fleet_rules |-> Nothing]
  /\ engine = NoEngine
  /\ error = NoError
  /\ _rules = <<>>
  /\ _fleet_rules = <<>>
  /\ _issues = <<>>
  /\ _devices = <<>>
  /\ heap \in BuiltinFleets
  /\ pc = "new"
  /\ frame = NoFrame
  /\ result = NoResult
  /\ fleetSeen = <<>>
  /\ snapshots = <<>>
  /\ trace = <<>>
  /\ files = <<>>
  /\ run = NoRun
  /\ pending_outputs = <<>>
  /\ outputs = <<>>
  /\ call = [NoCall EXCEPT !.fn = "RuleEngine", !.input = heap]
  /\ other = NoSession
  /\ registry = NoRegistry
  /\ journal = <<>>

NextBuiltin ==
  \/ Construct
  \/ CreateSession
  \/ \E a \in ApplyArgs : ClientApply(a)
  \/ ApplyRule
  \/ ApplyRecord
  \/ ClientFinalize
  \/ FinalizeFleetRule
  \/ FinalizeEnd

SpecBuiltin == InitBuiltin /\ [][NextBuiltin]_vars

\* ------------------------------------------------------------- construction
\* every way of calling RuleEngine(...): any rule-source, with or without the
\* rules and fleet_rules arguments
ConstructArgs ==
  [module_name : ModuleNames \cup {DEFAULT_RULES_MODULE},
   rules : Optional(SeqsUpTo(RuleEntries, MaxRules)),
   fleet_rules : Optional(SeqsUpTo(FleetRuleEntries, MaxFleetOverride))]

InitConstruct ==
  /\ args \in ConstructArgs
  /\ engine = NoEngine
  /\ error = NoError
  /\ _rules = <<>>
  /\ _fleet_rules = <<>>
  /\ _issues = <<>>
  /\ _devices = <<>>
  /\ heap = [d \in DevIds |-> InitialDevice(d)]
  /\ pc = "new"
  /\ frame = NoFrame
  /\ result = NoResult
  /\ fleetSeen = <<>>
  /\ snapshots = <<>>
  /\ trace = <<>>
  /\ files = <<>>
  /\ run = NoRun
  /\ pending_outputs = <<>>
  /\ outputs = <<>>
  /\ call = NoCall
  /\ other = NoSession
  /\ registry = NoRegistry
  /\ journal = <<>>

NextConstruct == Construct \/ CreateSession

SpecConstruct == InitConstruct /\ [][NextConstruct]_vars

\* ------------------------------------------------------- the Token Resolver
\* the texts between the "|" of a token; "" is an empty segment
ArgTexts == {"", "sfo01", "wgw01.sfo01", "ge-0/0/0", "a\\b"}
TokenNames == {"ipam", "IPAM", "asset", "dns", "DNS"}

RECURSIVE Piped(_)
Piped(parts) ==
  IF parts = <<>> THEN <<>>
  ELSE <<"|">> \o (IF Head(parts) = "" THEN <<>> ELSE <<Head(parts)>>)
         \o Piped(Tail(parts))

\* "<name|part|...>" as atoms
Token(name, parts) == <<"<", name>> \o Piped(parts) \o <<">">>

Tokens == {Token(name, parts) : name \in TokenNames, parts \in SeqsUpTo(ArgTexts, MaxArgs)}

\* strings TOKEN_PATTERN does not match
Literals ==
  {<<>>, <<"10.2.0.1/24">>, <<"<", "ipam">>, <<"ipam", ">">>, <<"<", ">">>,
   <<"<", "ge-0/0/0", ">">>, <<"<", "a\\b", "|", "sfo01", ">">>,
   <<"<", " ", "ipam", ">">>, <<"<", "ipam", ">", ">">>,
   <<"<", "asset", " ", "|", "sfo01", ">">>,
   <<"<", "ipam", "|", "sfo01", ">", "wgw01.sfo01", ">">>,
   <<"10.2.0.1/24", "<", "ipam", ">">>, <<"<", "ipam", ">", "10.2.0.1/24">>}

\* a value of a JSON field, with or without blanks around it
Padded(core) ==
  {core, <<" ">> \o core, core \o <<" ">>, <<" ">> \o core \o <<" ", " ">>}

Candidates == UNION {Padded(core) : core \in Tokens \cup Literals}

\* the (site, hostname, interface) _process_file passes along with the value
ResolveContexts ==
  [site : {"nyc01", "sfo01"},
   hostname : {"wgw01.nyc01", "wgw01.sfo01"},
   interface : {None, "ge-0/0/0"}]

\* the calls a client can make of a Lookup itself: any argument list, empty
\* arguments included; the interface-address Lookup takes an interface
LookupCalls ==
  {LookupCall("ipam", x.site, x.hostname, x.interface, arguments) :
     x \in {y \in ResolveContexts : y.interface # None},
     arguments \in SeqsUpTo(ArgTexts, MaxArgs)}
  \cup
  {LookupCall("asset", x.site, x.hostname, None, arguments) :
     x \in {y \in ResolveContexts : y.interface = None},
     arguments \in SeqsUpTo(ArgTexts, MaxArgs)}

InitResolve ==
  /\ args = [module_name |-> DEFAULT_RULES_MODULE, rules |-> Nothing,
             fleet_rules |-> Nothing]
  /\ engine = NoEngine
  /\ error = NoError
  /\ _rules = <<>>
  /\ _fleet_rules = <<>>
  /\ _issues = <<>>
  /\ _devices = <<>>
  /\ heap = <<>>
  /\ pc = "new"
  /\ frame = NoFrame
  /\ result = NoResult
  /\ fleetSeen = <<>>
  /\ snapshots = <<>>
  /\ trace = <<>>
  /\ files = <<>>
  /\ run = NoRun
  /\ pending_outputs = <<>>
  /\ outputs = <<>>
  /\ call \in {[NoCall EXCEPT !.fn = "_resolve_token",
                               !.input = [candidate |-> c, site |-> x.site,
                                          hostname |-> x.hostname,
                                          interface |-> x.interface]] :
                 c \in Candidates, x \in ResolveContexts}
             \cup {[NoCall EXCEPT !.fn = "lookup", !.input = l] : l \in LookupCalls}
  /\ other = NoSession
  /\ registry = NoRegistry
  /\ journal = <<>>

\* self._resolve_token(candidate, site=..., hostname=..., interface=...)
Resolve ==
  /\ call.fn = "_resolve_token"
  /\ ~call.done
  /\ call' = [call EXCEPT
                !.done = TRUE,
                !.output = _resolve_token_calls(call.input.candidate, call.input.site,
                                                call.input.hostname,
                                                call.input.interface)]
  /\ UNCHANGED <<other, registry, journal>>
  /\ UNCHANGED runVars
  /\ UNCHANGED <<args, engine, error, _rules, _fleet_rules, _issues, _devices, heap,
                 pc, frame, result, fleetSeen, snapshots, trace>>

\* self.ipam.lookup(...) or self.assets.lookup(...), called by a client
Lookup ==
  /\ call.fn = "lookup"
  /\ ~call.done
  /\ call' = [call EXCEPT
                !.done = TRUE,
                !.output =
                  [result |->
                     IF call.input.service = "ipam"
                     THEN IpamLookup(call.input.site, call.input.hostname,
                                     call.input.interface, call.input.arguments)
                     ELSE AssetLookup(call.input.site, call.input.hostname,
                                      call.input.arguments),
                   lookups |-> <<call.input>>]]
  /\ UNCHANGED <<other, registry, journal>>
  /\ UNCHANGED runVars
  /\ UNCHANGED <<args, engine, error, _rules, _fleet_rules, _issues, _devices, heap,
                 pc, frame, result, fleetSeen, snapshots, trace>>

NextResolve == Resolve \/ Lookup

SpecResolve == InitResolve /\ [][NextResolve]_vars


\* ======================================================== reading the history
Last(s) == s[Len(s)]
HasSession == pc \in {"idle", "apply", "finalize"}
Indices(events) == [n \in DOMAIN events |-> events[n].idx]
UpTo(n) == [k \in 1..n |-> k]

\* the events named ev among trace[a..b], in order
Between(ev, a, b) == SelectSeq(SubSeq(trace, a, b), LAMBDA e : e.ev = ev)

RECURSIVE LastCall(_, _)
\* the position of the last ev at or before position n, 0 if there is none
LastCall(n, ev) ==
  IF n = 0 THEN 0 ELSE IF trace[n].ev = ev THEN n ELSE LastCall(n - 1, ev)

\* every issue text passed to report_issue so far, in emission order
IssuesEmitted == Texts(Between("issue", 1, Len(trace)))

FinalizeEnded(n) == trace[n].ev \in {"returned", "raised"}
JustFinalized == trace # <<>> /\ FinalizeEnded(Len(trace))
NonEmptyRuleSet == _rules # <<>> \/ _fleet_rules # <<>>

RECURSIVE BlankLineSeparated(_)
\* the display text of a list of issues: a blank line between neighbours
BlankLineSeparated(items) ==
  IF items = <<>> THEN ""
  ELSE IF Len(items) = 1 THEN items[1]
  ELSE BlankLineSeparated(SubSeq(items, 1, Len(items) - 1))
         \o "\n\n" \o items[Len(items)]

\* ================================================================== claims

\* C1: finalize, after running every Fleet Rule, raises an aggregate violation
\* if and only if the issue sequence is non-empty; the violation carries every
\* issue recorded so far (by device Rules during all apply calls and by Fleet
\* Rules during this finalize), each once and in emission order, and its
\* message is those issues joined by a blank line; with no issue recorded
\* finalize returns normally.
C1_FinalizeRaisesIffIssues ==
  /\ _issues = IssuesEmitted
  /\ \A n \in DOMAIN trace :
       FinalizeEnded(n) =>
         ((trace[n].ev = "raised") <=> (Between("issue", 1, n) # <<>>))
  /\ JustFinalized =>
       IF IssuesEmitted # <<>>
       THEN /\ result.kind = "raised"
            /\ result.issues = IssuesEmitted
            /\ result.message = BlankLineSeparated(IssuesEmitted)
       ELSE result.kind = "returned"

\* a finalize has raised with issues of device Rules and of Fleet Rules
C1_Witness ==
  /\ JustFinalized
  /\ result.kind = "raised"
  /\ \E m, n \in DOMAIN trace :
       /\ trace[m].ev = "issue" /\ trace[m].dev # None
       /\ trace[n].ev = "issue" /\ trace[n].dev = None

\* C2: rule violations are not fail-fast: an issue reported by a device Rule
\* never makes that apply or a later apply fail or skip work (every remaining
\* device Rule, every later device and every Fleet Rule still runs), and the
\* violation is raised only by finalize, after all Fleet Rules have run.
C2_ViolationsNotFailFast ==
  /\ \A n \in DOMAIN trace :
       trace[n].ev = "raised" =>
         LET f == LastCall(n, "finalize")
         IN /\ f > 0
            /\ \A m \in f..n : trace[m].ev \in {"finalize", "fleet", "issue", "raised"}
            /\ Indices(Between("fleet", f, n)) = UpTo(Len(_fleet_rules))
  /\ \A e \in DOMAIN trace :
       (\E n \in 1..e : trace[n].ev = "issue" /\ trace[n].dev # None) =>
         /\ trace[e].ev = "applied" =>
              LET a == LastCall(e, "apply")
              IN /\ Indices(Between("rule", a, e)) = UpTo(Len(_rules))
                 /\ Len(Between("record", a, e)) = 1
         /\ FinalizeEnded(e) =>
              Indices(Between("fleet", LastCall(e, "finalize"), e))
                = UpTo(Len(_fleet_rules))
  /\ (_issues # <<>> /\ pc = "idle") => Count("applied") = Count("apply")

\* a device Rule reported an issue; a device Rule and a Fleet Rule still ran
\* after it, and then finalize raised
C2_Witness ==
  /\ JustFinalized
  /\ result.kind = "raised"
  /\ \E n, m, k \in DOMAIN trace :
       /\ n < m /\ m < k
       /\ trace[n].ev = "issue" /\ trace[n].dev # None
       /\ trace[m].ev = "rule"
       /\ trace[k].ev = "fleet"

\* the session is driven as apply (zero or more times), then one finalize
ProtocolFollowed ==
  /\ Count("finalize") <= 1
  /\ \A m \in DOMAIN trace :
       trace[m].ev = "finalize" => LastCall(Len(trace), "apply") < m

\* C3: in a session driven as apply* then one finalize, every device Rule
\* invocation completes before any Fleet Rule is invoked, and a device's
\* Device Record becomes visible to Fleet Rules only after all device Rules
\* have run for that device.
C3_DeviceRulesBeforeFleetRules ==
  /\ ProtocolFollowed =>
       \A n \in DOMAIN trace :
         trace[n].ev = "fleet" => LastCall(Len(trace), "rule") < n
  /\ \A n \in DOMAIN trace :
       trace[n].ev = "record" =>
         LET a == LastCall(n, "apply")
         IN /\ a > 0
            /\ trace[a].dev = trace[n].dev
            /\ Indices(Between("rule", a, n)) = UpTo(Len(_rules))
  /\ Len(_devices) = Count("record")
  /\ pc = "finalize" => frame.devices = _devices

\* two devices went through two device Rules each, then a Fleet Rule ran
C3_Witness ==
  /\ ProtocolFollowed
  /\ JustFinalized
  /\ Count("applied") = 2
  /\ Count("rule") = 4
  /\ Count("fleet") >= 1

\* the Rule Set order the constructor arguments name: the supplied sequences,
\* or the collections of the rule-source as written there
RegisteredRules ==
  IF args.rules.given THEN args.rules.items
  ELSE IF args.module_name = "listed_rules" THEN <<"mutate", "report">>
  ELSE IF args.module_name = "custom_rules" THEN <<"report", "mutate">>
  ELSE <<>>

RegisteredFleetRules ==
  IF args.fleet_rules.given THEN args.fleet_rules.items
  ELSE IF args.rules.given THEN <<>>
  ELSE IF args.module_name = "listed_rules" THEN <<"observe">>
  ELSE IF args.module_name = "custom_rules" THEN <<"freport">>
  ELSE <<>>

\* C4: within each apply every device Rule of the Rule Set is invoked exactly
\* once in registration order, within each finalize every Fleet Rule is invoked
\* exactly once in registration order, and discovery from a rule-source keeps
\* the order of the discovered collection.
C4_RulesRunOnceInOrder ==
  /\ engine.constructed =>
       /\ engine.rules = RegisteredRules
       /\ engine.fleet_rules = RegisteredFleetRules
  /\ \A n \in DOMAIN trace :
       /\ trace[n].ev = "applied" =>
            LET ran == Between("rule", LastCall(n, "apply"), n)
            IN /\ Texts(ran) = RegisteredRules
               /\ Indices(ran) = UpTo(Len(RegisteredRules))
       /\ FinalizeEnded(n) =>
            LET ran == Between("fleet", LastCall(n, "finalize"), n)
            IN IF Len(ran) = 0
               THEN RegisteredFleetRules = <<>>
               ELSE /\ Texts(ran) = RegisteredFleetRules
                    /\ Indices(ran) = UpTo(Len(RegisteredFleetRules))

\* an apply ran two different device Rules and a finalize ran a Fleet Rule
C4_Witness ==
  /\ JustFinalized
  /\ Len(_rules) = 2 /\ _rules[1] # _rules[2]
  /\ Count("applied") >= 1
  /\ Count("fleet") >= 1

\* C5: with a Rule Set that has neither device Rules nor Fleet Rules, any
\* number of apply calls followed by finalize allocates no Device Record,
\* records no issue, leaves each device unchanged and never raises.
C5_EmptyRuleSetIsNoOp ==
  (HasSession /\ ~NonEmptyRuleSet) =>
    /\ pc = "idle"
    /\ _devices = <<>>
    /\ Count("record") = 0
    /\ _issues = <<>>
    /\ \A d \in DevIds : [heap[d] EXCEPT !.schema = None] = InitialDevice(d)
    /\ result.kind # "raised"
    /\ Count("raised") = 0
    /\ JustFinalized => result.kind = "returned"

\* two apply calls and a finalize were made on a session with no rules
C5_Witness ==
  /\ HasSession /\ ~NonEmptyRuleSet
  /\ Count("applied") >= 2
  /\ JustFinalized

\* C6: with a non-empty Rule Set each apply call appends exactly one Device
\* Record for its device, so the number of accumulated Device Records equals
\* the number of apply calls made, and the Fleet Context built at finalize
\* holds exactly those records in apply order.
C6_OneRecordPerApply ==
  (HasSession /\ NonEmptyRuleSet) =>
    LET applies == Between("apply", 1, Len(trace))
    IN /\ Len(_devices) = Count("applied")
       /\ Count("apply") = Count("applied") + (IF pc = "apply" THEN 1 ELSE 0)
       /\ \A n \in DOMAIN _devices :
            /\ _devices[n].device = applies[n].dev
            /\ _devices[n].site = applies[n].text
            /\ _devices[n].source_path = SourcePathOf(applies[n].dev)
       /\ pc = "finalize" =>
            /\ Len(frame.devices) = Count("apply")
            /\ frame.devices = _devices

\* a Fleet Context over two records of the same device is in use
C6_Witness ==
  /\ pc = "finalize"
  /\ Len(frame.devices) = 2
  /\ frame.devices[1].device = frame.devices[2].device

\* C7: a Device Record is an immutable snapshot: what a Fleet Rule reads
\* through a record at finalize is the device map as it was when apply
\* returned for that record, whatever was written to the map afterwards.
C7_RecordIsImmutableSnapshot ==
  \A n \in DOMAIN fleetSeen : fleetSeen[n] = snapshots[n]

\* the run has returned or has been ended by an exception
RunEnded == run.pc \in {"done", "raised"}

\* C8: the Device Processor writes an output file only after session.finalize
\* has returned normally; if finalize raises an aggregate violation, or any
\* device fails token resolution, no output file of that run is written for any
\* device.
C8_OutputsOnlyAfterFinalizeReturned ==
  /\ Len(outputs) = Count("write")
  /\ \A n \in DOMAIN trace :
       trace[n].ev = "write" =>
         /\ \E m \in 1..(n - 1) : trace[m].ev = "returned"
         /\ \A m \in 1..n : trace[m].ev # "raised"
  /\ outputs # <<>> => (result.kind = "returned" /\ run.pc \in {"write", "done"})
  /\ run.pc = "raised" => outputs = <<>>
  /\ (run.pc = "done" /\ files # <<>>) =>
       /\ Len(outputs) = Len(files)
       /\ \A n \in DOMAIN outputs :
            /\ outputs[n].site = files[n].site
            /\ outputs[n].filename = files[n].name
            /\ outputs[n].data = heap[FileDevice(n)]

\* finalize raised after two devices were processed, and nothing was written
C8_Witness ==
  /\ run.pc = "raised"
  /\ result.kind = "raised"
  /\ Len(pending_outputs) = 2
  /\ outputs = <<>>

\* no interface address and no serial number of the device is a token
Resolved(device) ==
  /\ \A n \in DOMAIN device.interfaces :
       ~TOKEN_PATTERN(Strip(device.interfaces[n].ipv4)).matched
  /\ ~TOKEN_PATTERN(Strip(device.serial_number)).matched

\* what the lookups give for the files whose tokens resolve
ResolvedAs(file, device) ==
  /\ (file.site = "nyc01" /\ file.name = "wgw01.json") =>
       /\ device.interfaces[1].ipv4 = <<"10.2.0.1/24">>
       /\ device.serial_number = <<"FTX5678B01">>
  /\ (file.site = "sfo01" /\ file.name = "wgw01.json") =>
       /\ device.interfaces[1].ipv4 = <<"10.3.0.1/24">>
       /\ device.serial_number = <<"FTX0000">>

\* C9 as stated: token resolution completes before apply for every file, apply
\* is called exactly once per file in file order, and finalize is called
\* exactly once, after apply has been called for every file.
C9_ApplyOncePerFileFinalizeOnce ==
  RunEnded =>
    /\ Count("apply") = Len(files)
    /\ Count("finalize") = 1
    /\ \A n \in DOMAIN files :
         Between("apply", 1, Len(trace))[n].dev = FileDevice(n)

\* C9 as amended: resolution precedes apply for every file that is applied;
\* apply is called at most once per file, in file order, up to the first file
\* whose resolution fails; finalize is called once, after apply for every
\* file, exactly when there is a file and no resolution fails, and otherwise
\* not at all.
C9_ResolveThenApplyThenFinalize ==
  LET applies == Between("apply", 1, Len(trace))
  IN /\ Len(applies) <= Len(files)
     /\ \A n \in DOMAIN applies :
          /\ applies[n].dev = FileDevice(n)
          /\ applies[n].text = files[n].site
     /\ \A a \in DOMAIN trace :
          trace[a].ev = "apply" =>
            /\ a > 1
            /\ trace[a - 1].ev = "resolved"
            /\ trace[a - 1].dev = trace[a].dev
     /\ pc = "apply" =>
          /\ Resolved(heap[frame.device])
          /\ ResolvedAs(files[run.k], heap[frame.device])
     /\ pc = "finalize" =>
          \A n \in DOMAIN frame.devices :
            /\ Resolved(heap[frame.devices[n].device])
            /\ ResolvedAs(files[n], heap[frame.devices[n].device])
     /\ Count("finalize") <= 1
     /\ \A f \in DOMAIN trace :
          trace[f].ev = "finalize" => Len(Between("applied", 1, f)) = Len(files)
     /\ run.pc = "done" =>
          IF files = <<>>
          THEN Count("apply") = 0 /\ Count("finalize") = 0
          ELSE Count("apply") = Len(files) /\ Count("finalize") = 1
     /\ run.pc = "raised" =>
          IF error.error = "ValueError"
          THEN Count("apply") = run.k - 1 /\ Count("finalize") = 0
          ELSE Count("apply") = Len(files) /\ Count("finalize") = 1

\* a run over two files whose tokens resolved: rules ran on both, finalize ran
\* a Fleet Rule and returned, both files were written
C9_Witness ==
  /\ run.pc = "done"
  /\ Len(files) = 2
  /\ Count("rule") >= 2
  /\ Count("fleet") >= 1
  /\ Count("write") = 2

\* the constructor was given a sequence with an entry that is not callable
HasNonCallableEntry ==
  \/ \E n \in DOMAIN args.rules.items : ~Callable(args.rules.items[n])
  \/ \E n \in DOMAIN args.fleet_rules.items : ~Callable(args.fleet_rules.items[n])

NothingConstructed ==
  /\ pc \in {"new", "failed"}
  /\ ~engine.constructed
  /\ _rules = <<>> /\ _fleet_rules = <<>>
  /\ trace = <<>>

\* C10 as stated: construction with a non-invocable entry in rules or
\* fleet_rules fails with a registration error, no engine or Session exists
\* afterwards, and the entry is never detected as late as apply or finalize.
C10_FailsWithRegistrationError ==
  /\ HasNonCallableEntry =>
       /\ NothingConstructed
       /\ pc = "failed" => error.error = "TypeError"
  /\ Count("typeerror") = 0

\* C10 as amended: the failure is a registration error unless rules is omitted
\* and loading the rule-source fails first, which is then the error raised.
C10_FailsDuringConstruction ==
  /\ HasNonCallableEntry =>
       /\ NothingConstructed
       /\ pc = "failed" =>
            \/ error.error = "TypeError"
            \/ /\ ~args.rules.given
               /\ ModuleTable(args.module_name).import_result = "error"
               /\ error.error = "RuntimeError"
  /\ Count("typeerror") = 0
  /\ HasSession =>
       /\ \A n \in DOMAIN _rules : Callable(_rules[n])
       /\ \A n \in DOMAIN _fleet_rules : Callable(_fleet_rules[n])

\* construction failed on a non-callable Fleet Rule entry after the device
\* Rules had passed validation
C10_Witness ==
  /\ pc = "failed"
  /\ error.error = "TypeError"
  /\ \A n \in DOMAIN args.rules.items : Callable(args.rules.items[n])
  /\ \E n \in DOMAIN args.fleet_rules.items : ~Callable(args.fleet_rules.items[n])

\* the first of the attributes that is there, else the marked members
FirstPresent(attributes, marked) ==
  LET there == SelectSeq(attributes, LAMBDA a : a.given)
  IN IF there # <<>> THEN there[1].items ELSE marked

SourceImport(import_result) ==
  /\ ~args.rules.given
  /\ ModuleTable(args.module_name).import_result = import_result

\* the session does nothing: no rule ran, nothing was recorded or raised, and
\* no device was written by it
SessionIsNoOp ==
  /\ _rules = <<>> /\ _fleet_rules = <<>>
  /\ _devices = <<>> /\ _issues = <<>>
  /\ pc = "idle"
  /\ Count("rule") = 0 /\ Count("fleet") = 0
  /\ Count("record") = 0 /\ Count("raised") = 0
  /\ result.kind # "raised"
  /\ \A d \in DevIds : [heap[d] EXCEPT !.schema = None] = InitialDevice(d)

\* C12 as stated: if the named rule-source cannot be located, construction
\* succeeds with an empty Rule Set (no device Rules, no Fleet Rules) and every
\* Session of that engine treats apply and finalize as no-ops.
C12_MissingSourceIsEmptyRuleSet ==
  SourceImport("absent") =>
    /\ pc # "failed"
    /\ engine.constructed => (engine.rules = <<>> /\ engine.fleet_rules = <<>>)
    /\ HasSession => SessionIsNoOp

\* C12 as amended: a rule-source that cannot be located contributes no rule;
\* with no fleet_rules argument the construction succeeds with an empty Rule
\* Set and Sessions are no-ops, and a fleet_rules argument is validated and
\* used as it is whenever rules is omitted.
C12_MissingSourceContributesNothing ==
  SourceImport("absent") =>
    /\ pc = "failed" =>
         /\ error.error = "TypeError"
         /\ \E n \in DOMAIN args.fleet_rules.items :
              ~Callable(args.fleet_rules.items[n])
    /\ engine.constructed =>
         /\ engine.rules = <<>>
         /\ engine.fleet_rules = args.fleet_rules.items
    /\ args.fleet_rules.items = <<>> =>
         /\ pc # "failed"
         /\ HasSession => SessionIsNoOp

\* a Session of an engine whose rule-source is not there went through two
\* apply calls and a finalize
C12_Witness ==
  /\ SourceImport("absent")
  /\ ~args.fleet_rules.given
  /\ HasSession
  /\ Count("applied") >= 2
  /\ JustFinalized
  /\ result.kind = "returned"

\* C13: if the rule-source exists but cannot be loaded, for any reason other
\* than the rule-source itself being absent (also when a module that the
\* rule-source imports is missing), construction fails fatally and does not
\* proceed with an empty Rule Set.
C13_LoadFailureIsFatal ==
  (SourceImport("error") \/ SourceImport("nested-missing")) =>
    /\ ~engine.constructed
    /\ pc \in {"new", "failed"}
    /\ pc = "failed" =>
         (error.error = "RuntimeError" \/ HasNonCallableEntry)

\* C14: RuleEngine.apply(device, site, source_path) is equivalent to creating
\* a fresh Session, calling apply once with that device (the display path
\* defaulting to the source path) and calling finalize at once: the device is
\* left in the same state, the same aggregate violation is raised or the call
\* returns normally, and no state is left behind in the engine.
C14_EngineApplyIsOneShotSession ==
  /\ \A m, n \in DOMAIN journal :
       (journal[m].way = "session" /\ journal[n].way = "engine") =>
         /\ journal[m].device = journal[n].device
         /\ journal[m].result = journal[n].result
         /\ journal[m].records = journal[n].records
  /\ \A n \in DOMAIN journal :
       /\ journal[n].result.kind \in {"returned", "raised"}
       /\ \A k \in DOMAIN journal[n].records :
            journal[n].records[k].display_is_source
       /\ LET made == RuleEngineInit(args.module_name, args.rules, args.fleet_rules)
          IN journal[n].engine = [constructed |-> TRUE, rules |-> made.rules,
                                  fleet_rules |-> made.fleet_rules,
                                  _loaded_from_module |-> ~args.rules.given]
  /\ InsideEngineApply => Len(_devices) <= 1

\* both ways were taken, RuleEngine.apply second; a device Rule wrote the
\* device and the finalize of each raised
C14_Witness ==
  /\ Len(journal) = 2
  /\ journal[1].way = "session" /\ journal[2].way = "engine"
  /\ journal[2].result.kind = "raised"
  /\ journal[2].result.issues # <<>>
  /\ journal[2].device # InitialDevice("d1")
  /\ journal[2].device # InitialDevice("d2")
  /\ pc = "engine"

RECURSIVE OwnerOf(_, _)
\* the Session that was addressed when trace[n] was logged, looking at the
\* first k turns
OwnerOf(n, k) ==
  IF k = 0 THEN 1
  ELSE IF journal[k].at < n THEN journal[k].session
  ELSE OwnerOf(n, k - 1)

\* the events named ev that were logged while the Session was addressed
EventsOf(session, ev) ==
  LET at == SelectSeq(UpTo(Len(trace)),
                      LAMBDA n : trace[n].ev = ev
                                   /\ OwnerOf(n, Len(journal)) = session)
  IN [k \in DOMAIN at |-> trace[at[k]]]

\* the Session holds the records and issues of the calls made on it
HoldsItsOwn(session, id) ==
  LET records == EventsOf(id, "record")
  IN /\ Len(session._devices) = Len(records)
     /\ \A k \in DOMAIN records : session._devices[k].device = records[k].dev
     /\ session._issues = Texts(EventsOf(id, "issue"))
     /\ session._rules = RegisteredRules
     /\ session._fleet_rules = RegisteredFleetRules

\* C15: an engine is stateless after construction and its Sessions are
\* independent: however apply and finalize calls on two Sessions of one
\* engine interleave, the Device Records and issues of one never appear in
\* the other, and no Session operation and no later registration into the
\* rule-source's collection changes the Rule Set of the engine or of a Session.
C15_SessionsAreIndependent ==
  /\ engine.constructed =>
       /\ engine.rules = RegisteredRules
       /\ engine.fleet_rules = RegisteredFleetRules
  /\ HasSession =>
       /\ pc = "idle" => HoldsItsOwn(Addressed, AddressedId)
       /\ _rules = RegisteredRules /\ _fleet_rules = RegisteredFleetRules
  /\ other.exists => HoldsItsOwn(other, 3 - AddressedId)

\* each of two Sessions holds a record and an issue of its own, and the
\* rule-source's list has grown since the engine was made
C15_Witness ==
  /\ other.exists
  /\ pc = "idle"
  /\ _devices # <<>> /\ other._devices # <<>>
  /\ _issues # <<>> /\ other._issues # <<>>
  /\ _devices[1].device # other._devices[1].device
  /\ registry.DATA_RULES # ModuleTable(args.module_name).DATA_RULES.items

\* ---------------------------------------------------------------- C16
\* the characters of a resolver name: [a-zA-Z0-9_]
NameChars ==
  {"a", "b", "c", "d", "e", "f", "g", "h", "i", "j", "k", "l", "m", "n", "o", "p",
   "q", "r", "s", "t", "u", "v", "w", "x", "y", "z",
   "A", "B", "C", "D", "E", "F", "G", "H", "I", "J", "K", "L", "M", "N", "O", "P",
   "Q", "R", "S", "T", "U", "V", "W", "X", "Y", "Z",
   "0", "1", "2", "3", "4", "5", "6", "7", "8", "9", "_"}
IsResolverName(word) ==
  /\ Len(word) > 0
  /\ \A i \in 1..Len(word) : SubSeq(word, i, i) \in NameChars

\* the token syntax <resolver-name(|arg)*>, read off the string itself
TokenSyntax(atoms) ==
  LET n == Len(atoms)
  IN /\ n >= 3
     /\ atoms[1] = "<"
     /\ atoms[n] = ">"
     /\ IsResolverName(atoms[2])
     /\ \/ n = 3
        \/ /\ atoms[3] = "|"
           /\ \A k \in 4..(n - 1) : atoms[k] # ">"

Resolving == call.fn = "_resolve_token"
ResolvedCall == Resolving /\ call.done

\* C16: a candidate whose trimmed form is not a token is returned exactly as it
\* was given, blanks included; no Lookup is called and nothing is raised.
C16_LiteralPassesThrough ==
  (ResolvedCall /\ ~TokenSyntax(Strip(call.input.candidate)))
    => /\ call.output.result = Returned(call.input.candidate)
       /\ call.output.lookups = <<>>

\* a literal with blanks around it came back, blanks and all
C16_Witness ==
  /\ ResolvedCall
  /\ ~TokenSyntax(Strip(call.input.candidate))
  /\ Len(call.input.candidate) > 3
  /\ Head(call.input.candidate) = " "
  /\ Last(call.input.candidate) = " "
  /\ ~call.output.result.raised
  /\ call.output.result.value = call.input.candidate

\* ---------------------------------------------------------------- C17
\* str.__contains__: part is a substring of text
Contains(text, part) ==
  \E i \in 1..(Len(text) - Len(part) + 1) : SubSeq(text, i, i + Len(part) - 1) = part

\* the characters repr() does not show as they are
NeedsEscape(text) ==
  \/ HasChar(text, "\\")
  \/ HasChar(text, "'") /\ HasChar(text, "\"")
  \/ \E c \in {"\n", "\t", "\r"} : HasChar(text, c)

\* the candidate is a token for `resolver`, whatever the case of its name
TokenFor(resolver) ==
  /\ TokenSyntax(Strip(call.input.candidate))
  /\ Lower(Strip(call.input.candidate)[2]) = resolver

IpamWithoutInterface ==
  ResolvedCall /\ TokenFor("ipam") /\ call.input.interface = None

\* C17 as stated: an ipam token resolved with no interface fails, the
\* interface-address Lookup is not called, and the message contains the text
\* of the token as it was given.
C17_NoInterfaceFailsWithTokenText ==
  IpamWithoutInterface
    => /\ call.output.result.raised
       /\ call.output.lookups = <<>>
       /\ Contains(call.output.result.message, Text(call.input.candidate))

\* C17, amended: it fails with a ValueError, the Lookup is not called, and the
\* message contains repr(candidate); that is the text of the token itself
\* whenever the token holds no character repr() escapes.
C17_NoInterfaceFailsWithTokenRepr ==
  IpamWithoutInterface
    => /\ call.output.result.raised
       /\ call.output.result.error = "ValueError"
       /\ call.output.lookups = <<>>
       /\ Contains(call.output.result.message, Repr(Text(call.input.candidate)))
       /\ ~NeedsEscape(Text(call.input.candidate))
            => Contains(call.output.result.message, Text(call.input.candidate))

\* an upper-case ipam token with arguments and blanks around it failed for want
\* of an interface
C17_Witness ==
  /\ IpamWithoutInterface
  /\ Strip(call.input.candidate)[2] = "IPAM"
  /\ Len(Strip(call.input.candidate)) > 4
  /\ Head(call.input.candidate) = " "
  /\ call.output.result.raised
  /\ call.output.lookups = <<>>
  /\ ~NeedsEscape(Text(call.input.candidate))
  /\ Contains(call.output.result.message, Text(call.input.candidate))

\* ---------------------------------------------------------------- C18
\* the resolver name of the token, as it is written
WrittenResolver == Strip(call.input.candidate)[2]

UnsupportedToken ==
  /\ ResolvedCall
  /\ TokenSyntax(Strip(call.input.candidate))
  /\ Lower(WrittenResolver) \notin {"ipam", "asset"}

\* the error says: Resolver '<name>' ...
Names(message, name) == Contains(message, "Resolver '" \o name \o "'")

\* C18 as stated: a token for a resolver other than ipam and asset fails with
\* an error that names the resolver as it is written in the token and contains
\* the text of the token; no Lookup is called.
C18_UnsupportedNamesResolverAsWritten ==
  UnsupportedToken
    => /\ call.output.result.raised
       /\ Names(call.output.result.message, WrittenResolver)
       /\ Contains(call.output.result.message, Text(call.input.candidate))
       /\ call.output.lookups = <<>>

\* C18, amended: it fails with a ValueError that names the resolver in lower
\* case and contains repr(candidate); no Lookup is called. The name is the one
\* written when that is lower case already, and the token text is in the
\* message when repr() escapes nothing in it.
C18_UnsupportedNamesResolverLowered ==
  UnsupportedToken
    => /\ call.output.result.raised
       /\ call.output.result.error = "ValueError"
       /\ Names(call.output.result.message, Lower(WrittenResolver))
       /\ Contains(call.output.result.message, Repr(Text(call.input.candidate)))
       /\ call.output.lookups = <<>>
       /\ WrittenResolver = Lower(WrittenResolver)
            => Names(call.output.result.message, WrittenResolver)
       /\ ~NeedsEscape(Text(call.input.candidate))
            => Contains(call.output.result.message, Text(call.input.candidate))

\* a token for DNS, written in upper case, failed with an error that names dns
C18_Witness ==
  /\ UnsupportedToken
  /\ WrittenResolver = "DNS"
  /\ Len(Strip(call.input.candidate)) > 4
  /\ call.output.result.raised
  /\ Names(call.output.result.message, "dns")
  /\ ~Names(call.output.result.message, "DNS")
  /\ call.output.lookups = <<>>

\* ---------------------------------------------------------------- C19
ResolutionError == ResolvedCall /\ call.output.result.raised

\* the Lookup that was called failed, and its failure was wrapped
WrappedFailure(service) ==
  /\ ResolutionError
  /\ call.output.lookups # <<>>
  /\ call.output.lookups[1].service = service

\* str.startswith
StartsWith(text, prefix) ==
  Len(prefix) <= Len(text) /\ SubSeq(text, 1, Len(prefix)) = prefix

LookedUp == call.done /\ call.fn \in {"_resolve_token", "lookup"}
                      /\ call.output.lookups # <<>>

\* argument `index` of the call when present and non-empty, else the context
KeyAt(lookup, index, ambient) ==
  IF index < Len(lookup.arguments) /\ lookup.arguments[index + 1] # ""
  THEN lookup.arguments[index + 1] ELSE ambient

PositionalKey(lookup) ==
  IF lookup.service = "ipam"
  THEN <<KeyAt(lookup, 0, lookup.site), KeyAt(lookup, 1, lookup.hostname),
         KeyAt(lookup, 2, lookup.interface)>>
  ELSE <<KeyAt(lookup, 0, lookup.site), KeyAt(lookup, 1, lookup.hostname)>>

\* the call ended as a Lookup of `key` ends: with the entry, or with an error
\* that names the key
EndedAsLookupOf(lookup, key, outcome) ==
  IF lookup.service = "ipam"
  THEN IF key \in IpamKeys
       THEN outcome = Returned(<<IpamAllocation(key)>>)
       ELSE /\ outcome.raised
            /\ Contains(outcome.message,
                        "site=" \o Repr(key[1]) \o ", hostname=" \o Repr(key[2])
                          \o ", interface=" \o Repr(key[3]))
  ELSE IF key \in AssetKeys
       THEN outcome = Returned(<<AssetRecord(key)>>)
       ELSE /\ outcome.raised
            /\ Contains(outcome.message,
                        "site=" \o Repr(key[1]) \o ", hostname=" \o Repr(key[2]))

\* the same asset call or token under another ambient context
Elsewhere(x) ==
  IF call.fn = "lookup"
  THEN AssetLookup(x.site, x.hostname, call.input.arguments)
  ELSE _resolve_token(call.input.candidate, x.site, x.hostname, x.interface)

SuppliesSiteAndHostname(lookup) ==
  /\ lookup.service = "asset"
  /\ Len(lookup.arguments) >= 2
  /\ lookup.arguments[1] # ""
  /\ lookup.arguments[2] # ""

\* C20: a Lookup uses as site, hostname (and interface) key the argument at
\* position 0, 1 (and 2) when it is present and non-empty, and the value of
\* the context otherwise; an asset Lookup given both site and hostname ends
\* with the same value, or fails, whatever the ambient site and hostname are.
C20_KeysArePositionalWithFallback ==
  LookedUp
    => LET lookup == call.output.lookups[1]
       IN /\ EndedAsLookupOf(lookup, PositionalKey(lookup), call.output.result)
          /\ SuppliesSiteAndHostname(lookup)
               => \A x \in ResolveContexts :
                    /\ Elsewhere(x).raised = call.output.result.raised
                    /\ Elsewhere(x).value = call.output.result.value

\* the token <asset|sfo01|wgw01.sfo01> resolved for a device of another site
C20_Witness ==
  /\ ResolvedCall
  /\ Strip(call.input.candidate) = Token("asset", <<"sfo01", "wgw01.sfo01">>)
  /\ call.input.site = "nyc01"
  /\ call.input.hostname = "wgw01.nyc01"
  /\ call.output.result = Returned(<<"FTX2468C01">>)
  /\ SuppliesSiteAndHostname(call.output.lookups[1])

\* ---------------------------------------------------------------- C24
\* the segments written between the "|" of a token that are not empty, in the
\* order written (a segment here is one atom)
WrittenSegments(atoms) ==
  SelectSeq(SubSeq(atoms, 4, Len(atoms) - 1), LAMBDA atom : atom # "|")

\* the token is <name|S||I>: a site, an empty segment, a third segment
SkipsHostname(atoms) ==
  /\ Len(atoms) = 8
  /\ atoms[3] = "|" /\ atoms[4] # "|" /\ atoms[5] = "|" /\ atoms[6] = "|"
  /\ atoms[7] # "|"

\* C24: the Lookup receives the non-empty segments of the token only, in the
\* order written, so the segments after an empty one move one place to the
\* left; for <ipam|S||I> the entry looked up is that of site S, hostname I and
\* the interface of the context.
C24_EmptySegmentsShiftArguments ==
  (ResolvedCall /\ call.output.lookups # <<>>)
    => LET token == Strip(call.input.candidate)
           lookup == call.output.lookups[1]
       IN /\ lookup.arguments = WrittenSegments(token)
          /\ (lookup.service = "ipam" /\ SkipsHostname(token))
               => EndedAsLookupOf(lookup,
                                  <<token[4], token[7], call.input.interface>>,
                                  call.output.result)

\* <ipam|sfo01||wgw01.sfo01> resolved for a device of nyc01: the third segment
\* was taken for the hostname
C24_Witness ==
  /\ ResolvedCall
  /\ Strip(call.input.candidate) = Token("ipam", <<"sfo01", "", "wgw01.sfo01">>)
  /\ call.input.site = "nyc01"
  /\ call.input.hostname = "wgw01.nyc01"
  /\ call.input.interface = "ge-0/0/0"
  /\ call.output.lookups[1].arguments = <<"sfo01", "wgw01.sfo01">>
  /\ call.output.result = Returned(<<"10.3.0.1/24">>)

\* ---------------------------------------------------------------- C27
\* C27: a Session has no terminal state and never clears its issues. An apply
\* made after a finalize runs every device Rule and appends one Device Record;
\* a finalize made after a finalize runs every Fleet Rule again, over all the
\* records accumulated; the issue list is every issue ever reported, so after
\* a finalize that raised every later finalize raises too, and the issues of
\* the earlier violation are a prefix of the issues of the later one.
C27_NoTerminalStateIssuesAppendOnly ==
  /\ HasSession => _issues = IssuesEmitted
  /\ Len(_devices) = Count("record")
  /\ pc = "finalize" => frame.devices = _devices
  /\ JustFinalized /\ result.kind = "raised" => result.issues = IssuesEmitted
  /\ \A n \in DOMAIN trace :
       /\ (trace[n].ev = "applied" /\ NonEmptyRuleSet) =>
            LET a == LastCall(n, "apply")
            IN LastCall(a, "finalize") > 0 =>
                 /\ Texts(Between("rule", a, n)) = _rules
                 /\ Len(Between("record", a, n)) = 1
       /\ FinalizeEnded(n) =>
            LET f == LastCall(n, "finalize")
            IN /\ LastCall(f - 1, "finalize") > 0 =>
                    Texts(Between("fleet", f, n)) = _fleet_rules
               /\ LastCall(f - 1, "raised") > 0 => trace[n].ev = "raised"

\* a finalize raised, a device was applied and recorded after it, and a second
\* finalize ran the Fleet Rules again and raised with more issues
C27_Witness ==
  /\ JustFinalized
  /\ result.kind = "raised"
  /\ Count("raised") = 2
  /\ \E m \in DOMAIN trace :
       /\ trace[m].ev = "raised"
       /\ Len(Between("record", m, Len(trace))) = 1
       /\ Len(Between("rule", m, Len(trace))) >= 1
       /\ Len(Between("fleet", m, Len(trace))) >= 1
       /\ Len(Between("issue", 1, m)) < Len(result.issues)

\* ---------------------------------------------------------------- C26
\* what the rule-source named by the arguments gives when nothing is supplied
Discovered == _load_from_module(args.module_name)

\* the supplied fleet_rules, () when there are none
SuppliedFleetRules == IF args.fleet_rules.given THEN args.fleet_rules.items ELSE <<>>

BuiltinFleetRule == "ensure_unique_ipv4_allocations"

\* C26: with the rules argument given the rule-source is not loaded, whatever
\* it is: the Rule Set is the supplied rules and the supplied fleet_rules (no
\* Fleet Rule when there are none, so not the built-in one), and construction
\* fails only for an entry that is not callable. With fleet_rules alone, the
\* device Rules are the discovered ones and the Fleet Rules the supplied ones.
C26_ExplicitRulesTakePrecedence ==
  /\ (args.rules.given /\ engine.constructed) =>
       /\ engine.rules = args.rules.items
       /\ engine.fleet_rules = SuppliedFleetRules
       /\ ~engine._loaded_from_module
       /\ ~args.fleet_rules.given =>
            \A n \in DOMAIN engine.fleet_rules : engine.fleet_rules[n] # BuiltinFleetRule
  /\ (args.rules.given /\ pc = "failed") =>
       /\ HasNonCallableEntry
       /\ error.error = "TypeError"
  /\ (args.rules.given /\ ~HasNonCallableEntry) => pc # "failed"
  /\ (~args.rules.given /\ args.fleet_rules.given /\ engine.constructed) =>
       /\ ~Discovered.raised
       /\ engine.rules = Discovered.rules
       /\ engine.fleet_rules = args.fleet_rules.items
       /\ engine._loaded_from_module
  /\ HasSession => _rules = engine.rules /\ _fleet_rules = engine.fleet_rules

\* a session was created from explicit rules alone, although the rule-source
\* named with them cannot be loaded
C26_Witness ==
  /\ pc = "idle"
  /\ args.module_name = "broken_rules"
  /\ args.rules.given /\ args.rules.items # <<>>
  /\ ~args.fleet_rules.given
  /\ _rules = args.rules.items
  /\ _fleet_rules = <<>>

\* ---------------------------------------------------------------- C25
RECURSIVE LastApplySite(_, _)
\* the site of the last apply call for device d at or before position n of the
\* trace, None when there is none
LastApplySite(n, d) ==
  IF n = 0 THEN None
  ELSE IF trace[n].ev = "apply" /\ trace[n].dev = d THEN trace[n].text
  ELSE LastApplySite(n - 1, d)

\* the dict d as the client built it
AsBuilt(d) == call.input[d]

\* C25: through the built-in Rule Set, a device whose vendor is juniper and
\* whose domain is a string has, after apply with site s, the domain
\* s.example.com; any other device keeps its domain (or stays without one);
\* a second apply of the same device with the same site leaves the device as
\* the first one left it.
C25_JuniperDomainFollowsSite ==
  (HasSession /\ pc # "apply")
    => /\ \A d \in DevIds :
            LET site == LastApplySite(Len(trace), d)
            IN /\ heap[d].vendor = AsBuilt(d).vendor
               /\ IF /\ site # None
                     /\ AsBuilt(d).vendor = "juniper"
                     /\ IsStr(AsBuilt(d).domain)
                  THEN heap[d].domain = site \o ".example.com"
                  ELSE heap[d].domain = AsBuilt(d).domain
       /\ \A n \in DOMAIN _devices :
            (/\ n > 1
             /\ _devices[n].device = _devices[n - 1].device
             /\ _devices[n].site = _devices[n - 1].site)
              => snapshots[n] = snapshots[n - 1]

\* the juniper device with domain example.com went through apply for nyc01
\* twice: its domain is nyc01.example.com, the same after both
C25_Witness ==
  /\ pc = "idle"
  /\ AsBuilt("d1").vendor = "juniper"
  /\ AsBuilt("d1").domain = "example.com"
  /\ Len(_devices) = 2
  /\ \A n \in 1..2 : _devices[n].device = "d1" /\ _devices[n].site = "nyc01"
  /\ heap["d1"].domain = "nyc01.example.com"
  /\ snapshots[1] = snapshots[2]

\* ---------------------------------------------------------------- C21
\* the entries of a record's interfaces, none when the value is not a dict
InterfacesOf(record) ==
  LET interfaces == heap[record.device].interfaces
  IN IF interfaces.given THEN interfaces.items ELSE <<>>

\* the interface carries a value that parses as an IPv4 interface
ParsesAsV4(iface) ==
  /\ iface.isdict
  /\ iface.ipv4 \notin {None, ""}
  /\ ~ip_interface(iface.ipv4).raised
  /\ ip_interface(iface.ipv4).version = 4

\* the address without its prefix length
Canonical(iface) == ip_interface(iface.ipv4).exploded

\* interface a of record n and interface b of record m hold the same address
SharedAddress(n, a, m, b) ==
  LET x == InterfacesOf(_devices[n])[a]
      y == InterfacesOf(_devices[m])[b]
  IN ParsesAsV4(x) /\ ParsesAsV4(y) /\ Canonical(x) = Canonical(y)

\* the issue reports duplicates and names interface a of record n
NamesEntry(issue, n, a) ==
  /\ Contains(issue, "Duplicate IPv4 addresses detected:")
  /\ Contains(issue, _devices[n].display_path \o "::"
                       \o InterfacesOf(_devices[n])[a].name \o " (")

\* C21: with the built-in Fleet Rule, whenever two Device Records of the
\* session have interfaces whose IPv4 addresses are equal once the prefix
\* length is dropped, finalize raises, and one of the issues it raises with
\* is a duplicate-address issue that names the display path and the interface
\* name of both records.
C21_SharedAddressIsReported ==
  JustFinalized
    => \A n \in DOMAIN _devices : \A m \in DOMAIN _devices :
         n < m
           => \A a \in DOMAIN InterfacesOf(_devices[n]) :
                \A b \in DOMAIN InterfacesOf(_devices[m]) :
                  SharedAddress(n, a, m, b)
                    => /\ result.kind = "raised"
                       /\ \E k \in DOMAIN result.issues :
                            /\ NamesEntry(result.issues[k], n, a)
                            /\ NamesEntry(result.issues[k], m, b)
                            /\ Contains(result.issues[k],
                                        "\n  " \o Canonical(InterfacesOf(_devices[n])[a])
                                          \o "\n")

\* two files were applied whose devices hold 10.2.0.1, one as a /24 and one
\* with no prefix length, and finalize raised
C21_Witness ==
  /\ JustFinalized
  /\ result.kind = "raised"
  /\ Len(_devices) = 2
  /\ _devices[1].display_path = "data/nyc01/wgw01.json"
  /\ _devices[2].display_path = "sfo01/wgw02.json"
  /\ InterfacesOf(_devices[1]) = <<Iface("ge-0/0/0", "10.2.0.1/24")>>
  /\ InterfacesOf(_devices[2]) = <<Iface("ge-0/0/0", "10.2.0.1")>>
  /\ SharedAddress(1, 1, 2, 1)

\* ---------------------------------------------------------------- C22
\* the interface carries a value that fails to parse or parses as IPv6
Offending(iface) ==
  /\ iface.isdict
  /\ iface.ipv4 \notin {None, ""}
  /\ ip_interface(iface.ipv4).raised \/ ip_interface(iface.ipv4).version # 4

\* the offending interfaces of the session, by record and by position in the
\* record's interfaces
Offenders ==
  Concat([n \in DOMAIN _devices |->
            SelectSeq([a \in DOMAIN InterfacesOf(_devices[n]) |->
                         [path |-> _devices[n].display_path,
                          iface |-> InterfacesOf(_devices[n])[a]]],
                      LAMBDA o : Offending(o.iface))])

\* the issues the last finalize call emitted, in order
LastFinalizeIssues ==
  Texts(Between("issue", LastCall(Len(trace), "finalize"), Len(trace)))

DuplicateIssue(issue) == StartsWith(issue, "Duplicate IPv4 addresses detected:")

\* the issues of the last finalize that are not duplicate reports
OffenceIssues == SelectSeq(LastFinalizeIssues, LAMBDA i : ~DuplicateIssue(i))

RECURSIVE Lines(_)
\* str.split("\n")
Lines(text) ==
  LET at == Find(text, "\n")
  IN IF at = 0 THEN <<text>>
     ELSE <<SubSeq(text, 1, at - 1)>> \o Lines(SubSeq(text, at + 1, Len(text)))

\* no issue of the last finalize lists the offender as an entry of a group
NeverGrouped(o) ==
  \A k \in DOMAIN LastFinalizeIssues :
    ~Contains(LastFinalizeIssues[k], o.path \o "::" \o o.iface.name \o " (")

\* the line is about the offender: its display path, its interface name and
\* the value as written
LineAbout(line, o) ==
  /\ StartsWith(line, o.path \o ": interface " \o o.iface.name \o " has ")
  /\ Contains(line, "'" \o o.iface.ipv4 \o "'")

Assigned ==
  Concat([n \in DOMAIN _devices |->
            SelectSeq([a \in DOMAIN InterfacesOf(_devices[n]) |->
                         [path |-> _devices[n].display_path,
                          iface |-> InterfacesOf(_devices[n])[a]]],
                      LAMBDA o : ParsesAsV4(o.iface))])

\* the entries that hold the address ip, in the order they were met
Contributions(ip) == SelectSeq(Assigned, LAMBDA o : Canonical(o.iface) = ip)

\* the addresses held by more than one entry
GroupKeys ==
  {ip \in {Canonical(Assigned[n].iface) : n \in DOMAIN Assigned} :
     Len(Contributions(ip)) > 1}

\* the duplicate reports of the last finalize call
DuplicateIssues == SelectSeq(LastFinalizeIssues, LAMBDA i : DuplicateIssue(i))

\* the positions of the address lines among the lines of a duplicate report,
\* and the address each one holds
AddressLines(lines) ==
  {i \in DOMAIN lines : StartsWith(lines[i], "  ") /\ ~StartsWith(lines[i], "    ")}
AddressAt(lines, i) == SubSeq(lines[i], 3, Len(lines[i]))

\* the lines after position i list every entry that holds ip, in order
ListsGroup(lines, i, ip) ==
  LET entries == Contributions(ip)
  IN /\ \A k \in DOMAIN entries :
          /\ i + k \in DOMAIN lines
          /\ StartsWith(lines[i + k], "    " \o entries[k].path \o "::"
                                        \o entries[k].iface.name \o " (")
     /\ (i + Len(entries) + 1 \in DOMAIN lines)
          => ~StartsWith(lines[i + Len(entries) + 1], "    ")

\* C23 as stated: finalize emits one issue per duplicate group, the issues in
\* ascending order of the canonical address, each listing every contributing
\* entry.
C23_IssuePerDuplicateGroup ==
  JustFinalized
    => /\ Len(DuplicateIssues) = Cardinality(GroupKeys)
       /\ \A k \in DOMAIN DuplicateIssues :
            LET lines == Lines(DuplicateIssues[k])
            IN /\ Cardinality(AddressLines(lines)) = 1
               /\ \A i \in AddressLines(lines) :
                    /\ AddressAt(lines, i) \in GroupKeys
                    /\ ListsGroup(lines, i, AddressAt(lines, i))
                    /\ \A j \in 1..(k - 1) :
                         \A h \in AddressLines(Lines(DuplicateIssues[j])) :
                           StrLess(AddressAt(Lines(DuplicateIssues[j]), h),
                                   AddressAt(lines, i))

\* C23, amended: finalize emits a single duplicate-address issue for all the
\* duplicate groups together (none when there is no group), after the issue
\* about offending interfaces. Under its heading the issue lists the groups in
\* ascending order of the canonical address compared as text (10.10.0.1 comes
\* before 10.2.0.1), each address followed by every contributing entry in the
\* order the records were applied; the order of application shows in the issue
\* nowhere else.
C23_GroupsShareOneSortedIssue ==
  JustFinalized
    => /\ Len(DuplicateIssues) = IF GroupKeys = {} THEN 0 ELSE 1
       /\ GroupKeys # {}
            => /\ Last(LastFinalizeIssues) = DuplicateIssues[1]
               /\ LET lines == Lines(DuplicateIssues[1])
                      at == AddressLines(lines)
                  IN /\ lines[1] = "Duplicate IPv4 addresses detected:"
                     /\ {AddressAt(lines, i) : i \in at} = GroupKeys
                     /\ Cardinality(at) = Cardinality(GroupKeys)
                     /\ \A i \in at : \A j \in at :
                          i < j => StrLess(AddressAt(lines, i), AddressAt(lines, j))
                     /\ \A i \in at : ListsGroup(lines, i, AddressAt(lines, i))
                     /\ Len(lines) = 1 + Cardinality(at)
                          + Len(SelectSeq(Assigned,
                                          LAMBDA o : Canonical(o.iface) \in GroupKeys))

\* two files were applied whose devices both hold 10.2.0.1 and 10.10.0.1:
\* finalize raised with one issue, the group of 10.10.0.1 ahead of the group
\* of 10.2.0.1
C23_Witness ==
  /\ JustFinalized
  /\ Len(_devices) = 2
  /\ GroupKeys = {"10.2.0.1", "10.10.0.1"}
  /\ result.kind = "raised"
  /\ Len(result.issues) = 1
  /\ LET lines == Lines(result.issues[1])
     IN /\ Len(lines) = 7
        /\ lines[2] = "  10.10.0.1"
        /\ lines[5] = "  10.2.0.1"

====
